---- MODULE Spec2Model ----
(***************************************************************************)
(* A model of the resilient-access and result-shaping layer of the quiz    *)
(* service: the cached connection handle and its retry wrapper             *)
(* (database.py, mongo_database.py, queueing.py), the fixed-window rate    *)
(* limiter (rate_limit.py) and the grouping of joined rows in              *)
(* list_questions (database.py).                                           *)
(***************************************************************************)
EXTENDS Integers, Sequences, FiniteSets, TLC

VARIABLES
    store,        \* which client module the behaviour is about
    connection,   \* the module-global cached handle (0 is None)
    nextHandle,   \* identity of the next handle the driver will construct
    stale,        \* handles whose server side has been closed
    reachable,    \* whether the backend accepts connections
    call,         \* per worker: the call it is executing and its bookkeeping
    counter,      \* counter store: the value under each identifier (0 is absent)
    ttl,          \* counter store: whether the key carries an expiry
    redisUp,      \* whether the counter store answers commands
    chk,          \* per worker: the RateLimiter.check it is executing
    winAdmits,    \* per identifier: checks admitted since the key last expired
    windows,      \* per identifier: how many times the key has expired
    questions,    \* table questions: id -> its difficulty, or "absent"
    answers,      \* table answers: id -> question_id, or 0 when no such row
    lq,           \* the list_questions call: its arguments, rows and result
    qtext,        \* table questions: id -> its question text, or 0
    serial,       \* the next values of the sequences behind the serial ids
    txn,          \* per connection: the rows of its open transaction
    wr,           \* per worker: the create_question(s_bulk) call it executes
    cache,        \* cache store: the text under each cache key
    cacheTtl,     \* cache store: the expiry of each cache key (0 is none)
    req,          \* per worker: the GET /questions request it is serving
    down,         \* the dependencies that do not answer
    hreq,         \* per worker: the GET /_health request it is serving
    preq,         \* per worker: the POST request it is serving
    queue,        \* the tasks published to the queue process-question
    ws            \* the /ws handler of one peer

sessionVars == <<store, connection, nextHandle, stale, reachable, call>>

limiterVars == <<counter, ttl, redisUp, chk, winAdmits, windows>>

tableVars == <<questions, answers, lq>>

writeVars == <<qtext, serial, txn, wr>>

readVars == <<cache, cacheTtl, req>>

healthVars == <<down, hreq>>

postVars == <<preq, queue>>

streamVars == <<ws>>

endpointVars == <<healthVars, postVars, streamVars>>

vars == <<store, connection, nextHandle, stale, reachable, call,
          counter, ttl, redisUp, chk, winAdmits, windows,
          questions, answers, lq, qtext, serial, txn, wr,
          cache, cacheTtl, req, down, hreq, preq, queue, ws>>

\* What a step of one component leaves alone: the other components' state.
sessionFrame == <<limiterVars, tableVars, writeVars, readVars, endpointVars>>

limiterFrame == <<sessionVars, tableVars, writeVars, readVars, endpointVars>>

tableFrame == <<sessionVars, limiterVars, writeVars, readVars, endpointVars>>

(***************************************************************************)
(* Bounds                                                                  *)
(***************************************************************************)
MaxHandles == 2

MaxWindows == 1

MaxQuestions == 2

MaxAnswers == 3

MaxItems == 2

\* Rows in a row sequence handed to the grouping of list_questions.
MaxRows == 3

Workers == {"w1", "w2"}

(***************************************************************************)
(* Resilient session                                                       *)
(***************************************************************************)
None == 0

Stores == {"postgres", "mongo", "rabbit"}

\* The exception class each module's wrapper catches.
TransportError(s) ==
    CASE s = "postgres" -> "InterfaceError"
      [] s = "mongo"    -> "ConnectionFailure"
      [] s = "rabbit"   -> "StreamLostError"

\* What constructing a handle raises when the backend cannot be reached.
\* MongoClient(...) never raises; psycopg2.connect and pika.BlockingConnection do.
ConnectError(s) ==
    CASE s = "postgres" -> "OperationalError"
      [] s = "rabbit"   -> "AMQPConnectionError"
      [] OTHER          -> "none"

ConnectCanFail(s) == s # "mongo"

\* A query-level error such as UniqueViolation / DuplicateKeyError.
QueryError == "QueryError"

\* The handle is unusable: closed by the server, or (mongo, whose client
\* reconnects by itself) the backend is down.
Broken(s, hh) == IF s = "mongo" THEN ~reachable ELSE hh \in stale

\* What executing the wrapped function's statements on handle hh can give.
\* On a closed psycopg2 connection the statement raises OperationalError, or
\* InterfaceError when the connection context manager is involved.
RunResults(s, hh) ==
    IF Broken(s, hh)
    THEN IF s = "postgres" THEN {"InterfaceError", "OperationalError"}
                           ELSE {TransportError(s)}
    ELSE {"ok", QueryError}

IdleCall ==
    [pc |-> "idle", ctx |-> "none", force |-> FALSE, attempt |-> 0, h |-> None,
     execs |-> 0, forced |-> 0, built |-> 0, cached0 |-> None, steps |-> 0,
     first |-> "none", second |-> "none", outcome |-> "none",
     acqConn |-> None, acqForce |-> FALSE, acqTries |-> 0, acqBuilt |-> FALSE,
     acqFailed |-> FALSE, acqRet |-> None]

SessionInit ==
    /\ store \in Stores
    /\ connection = None
    /\ nextHandle = 1
    /\ stale = {}
    /\ reachable \in BOOLEAN
    /\ call = [w \in Workers |-> IdleCall]

\* The session at rest, for the behaviours of the other components.
SessionIdle ==
    /\ store = "postgres"
    /\ connection = None
    /\ nextHandle = 1
    /\ stale = {}
    /\ reachable = TRUE
    /\ call = [w \in Workers |-> IdleCall]

\* `if connection is None or force`
NeedsNewIgnoringForce(conn, force) == conn = None

NeedsNew(conn, force) == conn = None \/ force

\* `except <transport error>:` of the wrapper, reached only from the first
\* execution: the second execution sits inside the handler, outside the try.
ShouldRetryEveryTime(s, attempt, r) == r = TransportError(s)

ShouldRetryNever(s, attempt, r) == FALSE

ShouldRetryAnyError(s, attempt, r) == attempt = 1 /\ r # "ok"

ShouldRetry(s, attempt, r) == attempt = 1 /\ r = TransportError(s)

\* Bookkeeping of one get_*_connection invocation.
BeginAcquire(c, f, x) ==
    [c EXCEPT !.pc = "acquire", !.force = f, !.ctx = x,
              !.acqConn = None, !.acqForce = f, !.acqTries = 0,
              !.acqBuilt = FALSE, !.acqFailed = FALSE, !.acqRet = None]

\* wrapper(*args): the first `func(*args, **kwargs)`, whose first statement is
\* get_*_connection().
Call(w) ==
    /\ call[w].pc = "idle"
    /\ call' = [call EXCEPT ![w] =
                  BeginAcquire([IdleCall EXCEPT !.attempt = 1, !.execs = 1,
                                                !.cached0 = connection,
                                                !.steps = 1],
                               FALSE, "func")]
    /\ UNCHANGED <<store, connection, nextHandle, stale, reachable>>
    /\ UNCHANGED sessionFrame

\* A direct get_*_connection(force) call, as the tests make.
DirectAcquire(w, f) ==
    /\ call[w].pc = "idle"
    /\ call' = [call EXCEPT ![w] =
                  BeginAcquire([IdleCall EXCEPT !.cached0 = connection], f, "direct")]
    /\ UNCHANGED <<store, connection, nextHandle, stale, reachable>>
    /\ UNCHANGED sessionFrame

\* What the caller of get_*_connection does with the returned handle hh.
AfterAcquire(c, hh) ==
    CASE c.ctx = "func"    -> [c EXCEPT !.pc = "run", !.h = hh, !.acqRet = hh]
      [] c.ctx = "wrapper" ->
            \* the returned handle is dropped; func runs again and acquires
            BeginAcquire([c EXCEPT !.attempt = 2, !.execs = c.execs + 1],
                         FALSE, "func")
      [] OTHER             -> [c EXCEPT !.pc = "done", !.outcome = "handle",
                                        !.h = hh, !.acqRet = hh]

\* get_*_connection: the test `connection is None or force`; with a cached
\* handle and no force it falls through to `return connection`.
AcquireCheck(w) ==
    /\ call[w].pc = "acquire"
    /\ LET c == [call[w] EXCEPT !.acqConn = connection, !.steps = @ + 1] IN
       IF NeedsNew(connection, c.force)
       THEN call' = [call EXCEPT ![w] = [c EXCEPT !.pc = "connecting"]]
       ELSE call' = [call EXCEPT ![w] = AfterAcquire(c, connection)]
    /\ UNCHANGED <<store, connection, nextHandle, stale, reachable>>
    /\ UNCHANGED sessionFrame

\* The driver's connect succeeds: the new handle is assigned to the global and
\* returned.
ConnectOk(w) ==
    /\ call[w].pc = "connecting"
    /\ reachable \/ ~ConnectCanFail(store)
    /\ nextHandle <= MaxHandles
    /\ connection' = nextHandle
    /\ nextHandle' = nextHandle + 1
    /\ LET c == [call[w] EXCEPT !.acqTries = @ + 1, !.acqBuilt = TRUE,
                                !.built = @ + 1, !.steps = @ + 1] IN
       call' = [call EXCEPT ![w] =
                  IF c.ctx = "wrapper"
                  THEN [AfterAcquire(c, nextHandle) EXCEPT !.acqRet = None]
                  ELSE AfterAcquire(c, nextHandle)]
    /\ UNCHANGED <<store, stale, reachable>>
    /\ UNCHANGED sessionFrame

\* What get_database_connection does when the driver's connect raises:
\* `except OperationalError as e: ...; raise e`.
OnConnectErrorRetry(c) == [c EXCEPT !.acqTries = @ + 1, !.acqFailed = TRUE]

OnConnectErrorRunsAgain(c) ==
    IF c.ctx = "wrapper"
    THEN BeginAcquire([c EXCEPT !.acqTries = @ + 1, !.attempt = 2,
                                !.execs = c.execs + 1], FALSE, "func")
    ELSE OnConnectErrorRetry(c)

OnConnectError(c) ==
    [c EXCEPT !.acqTries = @ + 1, !.acqFailed = TRUE, !.pc = "done",
              !.outcome = ConnectError(store),
              !.first = IF c.ctx = "func" /\ c.attempt = 1
                        THEN ConnectError(store) ELSE @,
              !.second = IF c.ctx = "func" /\ c.attempt = 2
                         THEN ConnectError(store) ELSE @]

\* The driver's connect raises: the global keeps its value, the error leaves
\* get_*_connection, and no handler of the wrapper or of func catches it.
ConnectFail(w) ==
    /\ call[w].pc = "connecting"
    /\ ~reachable /\ ConnectCanFail(store)
    /\ call' = [call EXCEPT ![w] = OnConnectError([call[w] EXCEPT !.steps = @ + 1])]
    /\ UNCHANGED <<store, connection, nextHandle, stale, reachable>>
    /\ UNCHANGED sessionFrame

\* func's statements run on the handle it acquired; the wrapper's try/except
\* decides between returning, propagating and reconnecting.
Run(w) ==
    /\ call[w].pc = "run"
    /\ \E r \in RunResults(store, call[w].h) :
          LET c == IF call[w].attempt = 1
                   THEN [call[w] EXCEPT !.first = r, !.steps = @ + 1]
                   ELSE [call[w] EXCEPT !.second = r, !.steps = @ + 1] IN
          IF ShouldRetry(store, c.attempt, r)
          THEN call' = [call EXCEPT ![w] =
                          BeginAcquire([c EXCEPT !.forced = @ + 1], TRUE, "wrapper")]
          ELSE call' = [call EXCEPT ![w] = [c EXCEPT !.pc = "done", !.outcome = r]]
    /\ UNCHANGED <<store, connection, nextHandle, stale, reachable>>
    /\ UNCHANGED sessionFrame

\* The call has returned or raised; the worker takes its next request.
Return(w) ==
    /\ call[w].pc = "done"
    /\ call' = [call EXCEPT ![w] = IdleCall]
    /\ UNCHANGED <<store, connection, nextHandle, stale, reachable>>
    /\ UNCHANGED sessionFrame

\* The server closes an idle connection.
ServerClose(hh) ==
    /\ hh \in 1 .. (nextHandle - 1)
    /\ hh \notin stale
    /\ stale' = stale \cup {hh}
    /\ UNCHANGED <<store, connection, nextHandle, reachable, call>>
    /\ UNCHANGED sessionFrame

\* The backend goes away, taking every open connection with it.
BackendDown ==
    /\ reachable
    /\ reachable' = FALSE
    /\ stale' = 1 .. (nextHandle - 1)
    /\ UNCHANGED <<store, connection, nextHandle, call>>
    /\ UNCHANGED sessionFrame

BackendUp ==
    /\ ~reachable
    /\ reachable' = TRUE
    /\ UNCHANGED <<store, connection, nextHandle, stale, call>>
    /\ UNCHANGED sessionFrame

(***************************************************************************)
(* Windowed rate limiter                                                   *)
(***************************************************************************)
QUOTA == 5

Identifiers == {"a", "b"}

IdleCheck ==
    [pc |-> "idle", id |-> "none", read |-> None, result |-> "none",
     failed |-> FALSE, lapsed |-> FALSE, after |-> None]

LimiterInit ==
    /\ counter = [i \in Identifiers |-> None]
    /\ ttl = [i \in Identifiers |-> FALSE]
    /\ redisUp = TRUE
    /\ chk = [w \in Workers |-> IdleCheck]
    /\ winAdmits = [i \in Identifiers |-> 0]
    /\ windows = [i \in Identifiers |-> 0]

\* `if current_count < RateLimiter.QUOTA`
UnderQuotaInclusive(n) == n <= QUOTA

UnderQuota(n) == n < QUOTA

\* The value `self.connection.set(identifier, 1)` writes.
FirstValue == 1

\* A store command raises: check has no handler, so the error leaves it.
OnStoreErrorFailOpen(c) ==
    [c EXCEPT !.pc = "done", !.result = "admit", !.failed = TRUE]

OnStoreError(c) ==
    [c EXCEPT !.pc = "done", !.result = "error", !.failed = TRUE]

\* check: `current_count = self.connection.get(identifier)` and the branch
\* taken on it; the quota-consumed branch returns False at once.
CheckGet(w, i) ==
    /\ chk[w].pc = "idle"
    /\ LET c == [IdleCheck EXCEPT !.id = i] IN
       IF ~redisUp
       THEN chk' = [chk EXCEPT ![w] = OnStoreError(c)]
       ELSE chk' = [chk EXCEPT ![w] =
                IF counter[i] = None
                THEN [c EXCEPT !.pc = "set"]
                ELSE IF UnderQuota(counter[i])
                     THEN [c EXCEPT !.pc = "incr", !.read = counter[i]]
                     ELSE [c EXCEPT !.pc = "done", !.read = counter[i],
                                    !.result = "reject", !.after = counter[i]]]
    /\ UNCHANGED <<counter, ttl, redisUp, winAdmits, windows>>
    /\ UNCHANGED limiterFrame

\* _first_request: `self.connection.set(identifier, 1)`. SET drops any expiry
\* the key had.
FirstRequestSet(w) ==
    /\ chk[w].pc = "set"
    /\ IF ~redisUp
       THEN /\ chk' = [chk EXCEPT ![w] = OnStoreError(chk[w])]
            /\ UNCHANGED <<counter, ttl>>
       ELSE /\ counter' = [counter EXCEPT ![chk[w].id] = FirstValue]
            /\ ttl' = [ttl EXCEPT ![chk[w].id] = FALSE]
            /\ chk' = [chk EXCEPT ![w].pc = "expire"]
    /\ UNCHANGED <<redisUp, winAdmits, windows>>
    /\ UNCHANGED limiterFrame

\* _first_request: `self.connection.expire(identifier, INTERVAL)`, then check
\* returns True. EXPIRE on a key that no longer exists does nothing.
FirstRequestExpire(w) ==
    /\ chk[w].pc = "expire"
    /\ LET i == chk[w].id IN
       IF ~redisUp
       THEN /\ chk' = [chk EXCEPT ![w] = OnStoreError(chk[w])]
            /\ UNCHANGED <<ttl, winAdmits>>
       ELSE /\ ttl' = [ttl EXCEPT ![i] = (counter[i] # None)]
            /\ chk' = [chk EXCEPT ![w].pc = "done", ![w].result = "admit",
                                  ![w].after = counter[i]]
            /\ winAdmits' = [winAdmits EXCEPT ![i] = @ + 1]
    /\ UNCHANGED <<counter, redisUp, windows>>
    /\ UNCHANGED limiterFrame

\* _increment: `self.connection.incr(identifier)`, then check returns True.
\* INCR on an absent key creates it with value 1 and no expiry; on an existing
\* key it keeps the expiry.
Increment(w) ==
    /\ chk[w].pc = "incr"
    /\ LET i == chk[w].id IN
       IF ~redisUp
       THEN /\ chk' = [chk EXCEPT ![w] = OnStoreError(chk[w])]
            /\ UNCHANGED <<counter, winAdmits>>
       ELSE /\ counter' = [counter EXCEPT ![i] = @ + 1]
            /\ chk' = [chk EXCEPT ![w].pc = "done", ![w].result = "admit",
                                  ![w].after = counter[i] + 1]
            /\ winAdmits' = [winAdmits EXCEPT ![i] = @ + 1]
    /\ UNCHANGED <<ttl, redisUp, windows>>
    /\ UNCHANGED limiterFrame

\* check has returned or raised; the worker takes its next request.
CheckReturn(w) ==
    /\ chk[w].pc = "done"
    /\ chk' = [chk EXCEPT ![w] = IdleCheck]
    /\ UNCHANGED <<counter, ttl, redisUp, winAdmits, windows>>
    /\ UNCHANGED limiterFrame

\* The store deletes a key whose expiry has passed.
Expire(i) ==
    /\ counter[i] # None
    /\ ttl[i]
    /\ windows[i] < MaxWindows
    /\ counter' = [counter EXCEPT ![i] = None]
    /\ ttl' = [ttl EXCEPT ![i] = FALSE]
    /\ winAdmits' = [winAdmits EXCEPT ![i] = 0]
    /\ windows' = [windows EXCEPT ![i] = @ + 1]
    /\ chk' = [w \in Workers |->
                 IF chk[w].id = i /\ chk[w].pc \in {"set", "expire", "incr"}
                 THEN [chk[w] EXCEPT !.lapsed = TRUE] ELSE chk[w]]
    /\ UNCHANGED redisUp
    /\ UNCHANGED limiterFrame

RedisDown ==
    /\ redisUp
    /\ redisUp' = FALSE
    /\ UNCHANGED <<counter, ttl, chk, winAdmits, windows>>
    /\ UNCHANGED limiterFrame

RedisUp ==
    /\ ~redisUp
    /\ redisUp' = TRUE
    /\ UNCHANGED <<counter, ttl, chk, winAdmits, windows>>
    /\ UNCHANGED limiterFrame

(***************************************************************************)
(* Relational store and list_questions                                     *)
(***************************************************************************)
QuestionIds == 1 .. MaxQuestions

AnswerIds == 1 .. MaxAnswers

\* Column difficulty is nullable; two of the enum's values are enough to
\* tell a matching row from a non-matching one.
Difficulties == {"easy", "hard"}

NoDifficulty == "NULL"

IdleList ==
    [pc |-> "idle", limit |-> 0, offset |-> 0, difficulty |-> NoDifficulty,
     rows |-> <<>>, result |-> <<>>, raised |-> "none"]

\* answers.question_id REFERENCES questions(id)
ForeignKeysHold(qs, as) ==
    \A a \in AnswerIds : as[a] # 0 => qs[as[a]] # "absent"

TablesEmpty ==
    /\ questions = [q \in QuestionIds |-> "absent"]
    /\ answers = [a \in AnswerIds |-> 0]
    /\ lq = IdleList

\* Any content the two tables can hold.
TablesInit ==
    /\ questions \in [QuestionIds -> Difficulties \cup {NoDifficulty, "absent"}]
    /\ answers \in [AnswerIds -> {0} \cup QuestionIds]
    /\ ForeignKeysHold(questions, answers)
    /\ lq = IdleList

\* The elements of a set of integers in ascending order (ORDER BY id).
RECURSIVE Ascending(_)
Ascending(S) ==
    IF S = {} THEN <<>>
    ELSE LET m == CHOOSE x \in S : \A y \in S : x <= y
         IN <<m>> \o Ascending(S \ {m})

\* LIMIT l OFFSET o of a sequence.
LimitOffset(seq, l, o) ==
    SubSeq(seq, o + 1, IF o + l < Len(seq) THEN o + l ELSE Len(seq))

\* The elements of a set of integers, largest first (ORDER BY id DESC).
RECURSIVE Descending(_)
Descending(S) ==
    IF S = {} THEN <<>>
    ELSE LET m == CHOOSE x \in S : \A y \in S : x >= y
         IN <<m>> \o Descending(S \ {m})

\* The subquery paging from the newest question backwards.
SubqueryNewestFirst(l, o, d) ==
    LET matching == {q \in DOMAIN questions :
                        /\ questions[q] # "absent"
                        /\ d # NoDifficulty => questions[q] = d}
    IN LimitOffset(Descending(matching), l, o)

\* The subquery with its WHERE applied to the page instead of before it.
SubqueryFilterAfterLimit(l, o, d) ==
    LET present == {q \in DOMAIN questions : questions[q] # "absent"}
        page == LimitOffset(Ascending(present), l, o)
    IN SelectSeq(page, LAMBDA q : d # NoDifficulty => questions[q] = d)

\* SELECT id FROM questions [WHERE difficulty = d] ORDER BY id LIMIT l OFFSET o
Subquery(l, o, d) ==
    LET matching == {q \in DOMAIN questions :
                        /\ questions[q] # "absent"
                        /\ d # NoDifficulty => questions[q] = d}
    IN LimitOffset(Ascending(matching), l, o)

\* The rows the LEFT JOIN gives for question q, ORDER BY answers.id: one per
\* answer, or a single row with NULL answer columns.
JoinedRows(q) ==
    LET mine == Ascending({a \in DOMAIN answers : answers[a] = q})
    IN IF mine = <<>>
       THEN << [id |-> q, difficulty |-> questions[q], answer_id |-> None] >>
       ELSE [k \in 1 .. Len(mine) |->
               [id |-> q, difficulty |-> questions[q], answer_id |-> mine[k]]]

RECURSIVE Flatten(_)
Flatten(ids) ==
    IF ids = <<>> THEN <<>> ELSE JoinedRows(Head(ids)) \o Flatten(Tail(ids))

\* The naive query: LIMIT and OFFSET applied to the rows of the join.
QueryLimitOnJoin(l, o, d) ==
    LET ids == Subquery(MaxQuestions, 0, d)
    IN LimitOffset(Flatten(Ascending({ids[k] : k \in 1 .. Len(ids)})), l, o)

\* The query: questions LEFT JOIN answers WHERE questions.id IN (subquery)
\* ORDER BY questions.id, answers.id.
Query(l, o, d) ==
    LET ids == Subquery(l, o, d)
    IN Flatten(Ascending({ids[k] : k \in 1 .. Len(ids)}))

\* `if question['id'] == first_question['id']`
SameParentAlways(question, first_question) == TRUE

SameParent(question, first_question) == question.id = first_question.id

\* `if first_question['answer_id'] is not None`
HasAnswerAlways(row) == TRUE

HasAnswer(row) == row.answer_id # None

\* The group a row opens: its question columns, and its answer if it has one.
NewGroup(row) ==
    [id |-> row.id, difficulty |-> row.difficulty,
     answers |-> IF HasAnswer(row) THEN <<row.answer_id>> ELSE <<>>]

\* The loop `for index in range(1, len(questions))`, from position index on.
RECURSIVE GroupLoop(_, _, _, _)
GroupLoop(rows, index, first_question, grouped_answers) ==
    IF index > Len(rows) THEN grouped_answers
    ELSE LET question == rows[index]
             last == Len(grouped_answers)
         IN IF SameParent(question, first_question)
            THEN GroupLoop(rows, index + 1, first_question,
                     [grouped_answers EXCEPT ![last].answers =
                          Append(@, question.answer_id)])
            ELSE GroupLoop(rows, index + 1, question,
                     Append(grouped_answers, NewGroup(question)))

\* `if len(rows) == 0: return rows`
ReturnsEarlyNever(rows) == FALSE

ReturnsEarly(rows) == Len(rows) = 0

\* `first_question = questions[0]` raises IndexError on an empty list.
FirstRowRaises(rows) == ~ReturnsEarly(rows) /\ Len(rows) = 0

\* The grouping of list_questions: no rows give no groups.
Group(rows) ==
    IF ReturnsEarly(rows) THEN <<>>
    ELSE GroupLoop(rows, 2, rows[1], << NewGroup(rows[1]) >>)

Limits == 0 .. MaxQuestions

Offsets == 0 .. MaxQuestions

list_questions(l, o, d) ==
    /\ lq.pc = "idle"
    /\ LET rows == Query(l, o, d) IN
       lq' = [pc |-> "returned", limit |-> l, offset |-> o, difficulty |-> d,
              rows |-> rows,
              result |-> IF FirstRowRaises(rows) THEN <<>> ELSE Group(rows),
              raised |-> IF FirstRowRaises(rows) THEN "IndexError" ELSE "none"]
    /\ UNCHANGED <<questions, answers>>
    /\ UNCHANGED tableFrame

\* The caller has the result; the next request may come.
ListReturn ==
    /\ lq.pc = "returned"
    /\ lq' = IdleList
    /\ UNCHANGED <<questions, answers>>
    /\ UNCHANGED tableFrame

\* Any row the cursor can hand back: a question id and an answer id or NULL.
FetchedRows ==
    [id : QuestionIds, difficulty : {NoDifficulty}, answer_id : {None} \cup AnswerIds]

RECURSIVE SeqsUpTo(_, _)
SeqsUpTo(S, n) ==
    IF n = 0 THEN {<<>>}
    ELSE LET shorter == SeqsUpTo(S, n - 1)
         IN shorter \cup {Append(seq, x) : seq \in {t \in shorter : Len(t) = n - 1}, x \in S}

RowSequences == SeqsUpTo(FetchedRows, MaxRows)

\* list_questions from `rows = cursor.fetchall()` on, for any rows whatever:
\* the early return, the labelling and the grouping loop.
GroupFetched(rows) ==
    /\ lq.pc = "idle"
    /\ lq' = [IdleList EXCEPT
                !.pc = "returned",
                !.rows = rows,
                !.result = IF FirstRowRaises(rows) THEN <<>> ELSE Group(rows),
                !.raised = IF FirstRowRaises(rows) THEN "IndexError" ELSE "none"]
    /\ UNCHANGED <<questions, answers>>
    /\ UNCHANGED tableFrame

(***************************************************************************)
(* Writes: create_question and create_questions_bulk                       *)
(***************************************************************************)
\* Question texts, and the text column of a row that does not exist.
Texts == {1, 2}

NoText == 0

\* The two executions a call can make of its body.
Executions == {1, 2}

\* The answers of an item: each either inserts ("ok") or is one whose INSERT
\* raises a data error ("bad": a null or NUL-holding answer text).
AnswerLists == {<<>>, <<"ok", "ok">>, <<"ok", "bad">>}

\* The longest answer list of an item.
MaxItemAnswers ==
    CHOOSE n \in {Len(l) : l \in AnswerLists} : \A l \in AnswerLists : Len(l) <= n

\* The sequences never run dry within a call: every stored question and
\* every insert of both executions gets a value.
MaxQuestionSerial == Cardinality(Texts) + Cardinality(Executions) * MaxItems

MaxAnswerSerial ==
    Cardinality(Texts) + Cardinality(Executions) * MaxItems * MaxItemAnswers

\* Values the serial columns questions.id and answers.id hand out.
QuestionSerials == 1 .. MaxQuestionSerial

AnswerSerials == 1 .. MaxAnswerSerial

Items == [text : Texts, answers : AnswerLists]

\* Batches of at most MaxItems items.
Batches == UNION {[1 .. n -> Items] : n \in 0 .. MaxItems}

Handles == 1 .. MaxHandles

\* The transaction a connection has open: the rows it inserted and has not
\* yet committed, and whether a statement failed in it.
NoTxn == [qs |-> {}, as |-> {}, aborted |-> FALSE]

IdleWrite ==
    [pc |-> "idle", kind |-> "none", items |-> <<>>, index |-> 0,
     attempt |-> 0, h |-> None, inserted_id |-> None, answer |-> 0,
     inserted_ids |-> <<>>, skipped_rows |-> <<>>, error |-> "none",
     outcome |-> "none", committed |-> <<>>, serial0 |-> 0]

\* The value a sequence hands out next when f holds the rows.
NextSerial(f, gone) ==
    LET used == {x \in DOMAIN f : f[x] # gone}
    IN IF used = {} THEN 1
       ELSE 1 + CHOOSE x \in used : \A y \in used : y <= x

\* No write is running and no transaction is open; every stored question
\* has a text of its own.
WriteIdle ==
    /\ qtext = [q \in DOMAIN questions |->
                   IF questions[q] = "absent" THEN NoText ELSE q]
    /\ serial = [q |-> NextSerial(questions, "absent"), a |-> NextSerial(answers, 0)]
    /\ txn = [hh \in Handles |-> NoTxn]
    /\ wr = [w \in Workers |-> IdleWrite]

\* The questions stored so far, one of each text at most.
StoredTexts ==
    {pre \in UNION {[1 .. n -> Texts] : n \in 0 .. Cardinality(Texts)} :
        \A i, j \in DOMAIN pre : i # j => pre[i] # pre[j]}

\* Any content earlier writes can have left: questions with distinct texts,
\* each with one answer, and sequences that have moved past them.
WriteStoreInit ==
    \E pre \in StoredTexts :
        /\ questions = [q \in QuestionSerials |->
                           IF q <= Len(pre) THEN NoDifficulty ELSE "absent"]
        /\ qtext = [q \in QuestionSerials |->
                       IF q <= Len(pre) THEN pre[q] ELSE NoText]
        /\ answers = [a \in AnswerSerials |-> IF a <= Len(pre) THEN a ELSE 0]
        /\ serial = [q |-> Len(pre) + 1, a |-> Len(pre) + 1]
        /\ txn = [hh \in Handles |-> NoTxn]
        /\ wr = [w \in Workers |-> IdleWrite]
        /\ lq = IdleList

\* The tables as _create_tables leaves them.
WriteTablesEmpty ==
    /\ questions = [q \in QuestionSerials |-> "absent"]
    /\ answers = [a \in AnswerSerials |-> 0]
    /\ lq = IdleList

\* What a write leaves alone.
writeFrame == <<store, reachable, call, limiterVars, lq, readVars, endpointVars>>

\* The texts of the rows a statement on handle hh sees: committed rows and
\* the rows of its own transaction.
VisibleTexts(hh) ==
    {qtext[q] : q \in {p \in DOMAIN qtext :
                          /\ qtext[p] # NoText
                          /\ \A o \in Handles \ {hh} : p \notin txn[o].qs}}

\* The texts of rows another connection inserted and has not committed: an
\* INSERT of such a text waits for that transaction to end.
LockedTexts(hh) ==
    {qtext[q] : q \in UNION {txn[o].qs : o \in Handles \ {hh}}}

\* `question text NOT NULL UNIQUE`
UniqueNotEnforced(text, hh) == FALSE

ViolatesUnique(text, hh) == text \in VisibleTexts(hh)

\* `question_id integer NOT NULL REFERENCES questions(id)`
ForeignKeyNotEnforced(question_id) == FALSE

ViolatesForeignKey(question_id) == questions[question_id] = "absent"

\* ROLLBACK of a transaction that inserted the given rows: they are gone.
NotRolledBack(f, rows, gone) == f

RolledBack(f, rows, gone) == [x \in DOMAIN f |-> IF x \in rows THEN gone ELSE f[x]]

\* The start of one execution of the function body with handle hh:
\* `inserted_ids = []`, `skipped_rows = []`, then the loop over the items.
StartExecution(c, hh) ==
    [c EXCEPT !.pc = IF c.items = <<>> THEN "returned" ELSE "insert_q",
              !.outcome = IF c.items = <<>> THEN "ok" ELSE "none",
              !.h = hh, !.index = IF c.items = <<>> THEN 0 ELSE 1,
              !.inserted_id = None, !.answer = 0, !.error = "none",
              !.inserted_ids = <<>>, !.skipped_rows = <<>>]

\* wrapper(*args) and the first statements of the body up to
\* `connection = get_database_connection()`, which connects when no handle is
\* cached and raises when that fails.
BeginWrite(w, kind, items) ==
    /\ wr[w].pc = "idle"
    /\ LET c == [IdleWrite EXCEPT !.kind = kind, !.items = items, !.attempt = 1,
                                  !.serial0 = serial.q] IN
       IF ~NeedsNew(connection, FALSE)
       THEN /\ wr' = [wr EXCEPT ![w] = StartExecution(c, connection)]
            /\ UNCHANGED <<connection, nextHandle>>
       ELSE IF reachable
       THEN /\ nextHandle <= MaxHandles
            /\ connection' = nextHandle
            /\ nextHandle' = nextHandle + 1
            /\ wr' = [wr EXCEPT ![w] = StartExecution(c, nextHandle)]
       ELSE /\ wr' = [wr EXCEPT ![w] = [c EXCEPT !.pc = "raised",
                                   !.outcome = ConnectError("postgres")]]
            /\ UNCHANGED <<connection, nextHandle>>
    /\ UNCHANGED <<stale, questions, answers, qtext, serial, txn>>
    /\ UNCHANGED writeFrame

create_question(w, item) == BeginWrite(w, "single", <<item>>)

create_questions_bulk(w, items) == BeginWrite(w, "bulk", items)

\* A statement raised inside `with connection:`; the exception leaves the
\* block.
Raise(c, err) == [c EXCEPT !.pc = "unwind", !.error = err]

\* `except UniqueViolation:` of the batch loop: record the 1-based position and
\* `continue`, which leaves the `with` block without an exception.
OnUniqueViolationRaise(c) == Raise(c, "UniqueViolation")

OnUniqueViolation(c) ==
    IF c.kind = "bulk"
    THEN [c EXCEPT !.pc = "exit", !.inserted_id = None,
                   !.skipped_rows = Append(@, c.index)]
    ELSE Raise(c, "UniqueViolation")

\* cursor.execute("INSERT INTO questions ... RETURNING id")
InsertQuestion(w) ==
    /\ wr[w].pc = "insert_q"
    /\ LET c == wr[w]
           text == c.items[c.index].text
           id == serial.q
       IN
       IF Broken("postgres", c.h)
       THEN /\ \E r \in RunResults("postgres", c.h) :
                  wr' = [wr EXCEPT ![w] = Raise(c, r)]
            /\ UNCHANGED <<questions, qtext, serial, txn>>
       ELSE IF txn[c.h].aborted
       THEN /\ wr' = [wr EXCEPT ![w] = Raise(c, "InFailedSqlTransaction")]
            /\ UNCHANGED <<questions, qtext, serial, txn>>
       ELSE /\ serial.q <= MaxQuestionSerial
            /\ text \notin LockedTexts(c.h)
            /\ serial' = [serial EXCEPT !.q = @ + 1]
            /\ IF ViolatesUnique(text, c.h)
               THEN /\ txn' = [txn EXCEPT ![c.h].aborted = TRUE]
                    /\ wr' = [wr EXCEPT ![w] = OnUniqueViolation(c)]
                    /\ UNCHANGED <<questions, qtext>>
               ELSE /\ questions' = [questions EXCEPT ![id] = NoDifficulty]
                    /\ qtext' = [qtext EXCEPT ![id] = text]
                    /\ txn' = [txn EXCEPT ![c.h].qs = @ \cup {id}]
                    /\ wr' = [wr EXCEPT ![w] =
                                [c EXCEPT !.inserted_id = id,
                                          !.answer = 1,
                                          !.pc = IF c.items[c.index].answers = <<>>
                                                 THEN "exit" ELSE "insert_a"]]
    /\ UNCHANGED <<connection, nextHandle, stale, answers>>
    /\ UNCHANGED writeFrame

\* cursor.execute("INSERT INTO answers ...") for the next answer of the item
\* (one statement of executemany in create_question).
InsertAnswer(w) ==
    /\ wr[w].pc = "insert_a"
    /\ LET c == wr[w]
           mine == c.items[c.index].answers
           id == serial.a
       IN
       IF Broken("postgres", c.h)
       THEN /\ \E r \in RunResults("postgres", c.h) :
                  wr' = [wr EXCEPT ![w] = Raise(c, r)]
            /\ UNCHANGED <<answers, serial, txn>>
       ELSE IF txn[c.h].aborted
       THEN /\ wr' = [wr EXCEPT ![w] = Raise(c, "InFailedSqlTransaction")]
            /\ UNCHANGED <<answers, serial, txn>>
       ELSE IF mine[c.answer] = "bad"
       THEN /\ txn' = [txn EXCEPT ![c.h].aborted = TRUE]
            /\ wr' = [wr EXCEPT ![w] = Raise(c, "DataError")]
            /\ UNCHANGED <<answers, serial>>
       ELSE /\ serial.a <= MaxAnswerSerial
            /\ serial' = [serial EXCEPT !.a = @ + 1]
            /\ IF ViolatesForeignKey(c.inserted_id)
               THEN /\ txn' = [txn EXCEPT ![c.h].aborted = TRUE]
                    /\ wr' = [wr EXCEPT ![w] = Raise(c, "ForeignKeyViolation")]
                    /\ UNCHANGED answers
               ELSE /\ answers' = [answers EXCEPT ![id] = c.inserted_id]
                    /\ txn' = [txn EXCEPT ![c.h].as = @ \cup {id}]
                    /\ wr' = [wr EXCEPT ![w] =
                                [c EXCEPT !.answer = @ + 1,
                                          !.pc = IF c.answer = Len(mine)
                                                 THEN "exit" ELSE "insert_a"]]
    /\ UNCHANGED <<connection, nextHandle, stale, questions, qtext>>
    /\ UNCHANGED writeFrame

\* The position after item index of the loop, or the return after the last.
NextItem(c) ==
    IF c.index = Len(c.items)
    THEN [c EXCEPT !.pc = "returned", !.outcome = "ok"]
    ELSE [c EXCEPT !.pc = "insert_q", !.index = @ + 1,
                   !.inserted_id = None, !.answer = 0]

\* The end of an item's `with connection:` block without an exception:
\* `inserted_ids.append(inserted_id)` when the item was not skipped, then the
\* context manager's commit().  The server ends a transaction in which a
\* statement failed with a rollback and reports no error.
ExitCommit(w) ==
    /\ wr[w].pc = "exit"
    /\ LET c == wr[w]
           t == txn[c.h]
           d == IF c.inserted_id = None THEN c
                ELSE [c EXCEPT !.inserted_ids = Append(@, c.inserted_id)]
       IN
       IF Broken("postgres", c.h)
       THEN /\ \E r \in RunResults("postgres", c.h) :
                  wr' = [wr EXCEPT ![w] = Raise(d, r)]
            /\ UNCHANGED <<questions, answers, qtext, txn>>
       ELSE IF t.aborted
       THEN /\ questions' = RolledBack(questions, t.qs, "absent")
            /\ qtext' = RolledBack(qtext, t.qs, NoText)
            /\ answers' = RolledBack(answers, t.as, 0)
            /\ txn' = [txn EXCEPT ![c.h] = NoTxn]
            /\ wr' = [wr EXCEPT ![w] = NextItem(d)]
       ELSE /\ txn' = [txn EXCEPT ![c.h] = NoTxn]
            /\ wr' = [wr EXCEPT ![w] =
                        NextItem(IF c.inserted_id \in t.qs
                                 THEN [d EXCEPT !.committed = Append(@,
                                          [index |-> c.index, id |-> c.inserted_id])]
                                 ELSE d)]
            /\ UNCHANGED <<questions, answers, qtext>>
    /\ UNCHANGED <<connection, nextHandle, stale, serial>>
    /\ UNCHANGED writeFrame

\* An exception leaves `with connection:`: the context manager rolls the
\* transaction back, the exception leaves the function, and the wrapper's
\* `except psycopg2.InterfaceError` either lets it pass or makes a new
\* connection and runs the function again from its first statement.
Unwind(w) ==
    /\ wr[w].pc = "unwind"
    /\ LET c == wr[w]
           t == txn[c.h]
       IN
       /\ IF Broken("postgres", c.h)
          THEN UNCHANGED <<questions, answers, qtext, txn>>
          ELSE /\ questions' = RolledBack(questions, t.qs, "absent")
               /\ qtext' = RolledBack(qtext, t.qs, NoText)
               /\ answers' = RolledBack(answers, t.as, 0)
               /\ txn' = [txn EXCEPT ![c.h] = NoTxn]
       /\ IF ~ShouldRetry("postgres", c.attempt, c.error)
          THEN /\ wr' = [wr EXCEPT ![w] =
                           [c EXCEPT !.pc = "raised", !.outcome = c.error]]
               /\ UNCHANGED <<connection, nextHandle>>
          ELSE IF reachable
          THEN /\ nextHandle <= MaxHandles
               /\ connection' = nextHandle
               /\ nextHandle' = nextHandle + 1
               /\ wr' = [wr EXCEPT ![w] =
                           StartExecution([c EXCEPT !.attempt = 2], nextHandle)]
          ELSE /\ wr' = [wr EXCEPT ![w] =
                           [c EXCEPT !.pc = "raised",
                                     !.outcome = ConnectError("postgres")]]
               /\ UNCHANGED <<connection, nextHandle>>
    /\ UNCHANGED <<stale, serial>>
    /\ UNCHANGED writeFrame

\* The server closes connection hh; the transaction it had open is rolled
\* back.
ConnectionLost(hh) ==
    /\ hh \in 1 .. (nextHandle - 1)
    /\ hh \notin stale
    /\ stale' = stale \cup {hh}
    /\ questions' = RolledBack(questions, txn[hh].qs, "absent")
    /\ qtext' = RolledBack(qtext, txn[hh].qs, NoText)
    /\ answers' = RolledBack(answers, txn[hh].as, 0)
    /\ txn' = [txn EXCEPT ![hh] = NoTxn]
    /\ UNCHANGED <<connection, nextHandle, serial, wr>>
    /\ UNCHANGED writeFrame

(***************************************************************************)
(* GET /questions: rate limiter, cache-aside, list_questions               *)
(***************************************************************************)
\* `redis_connection.expire(cache_key, 60)`
CACHE_EXPIRY == 60

\* The request carries no x-forwarded-for header: `client_ip` is None.
NoHeader == "(no header)"

\* The query parameters the requests of the model come with.
RequestLimits == {1, 2}

RequestOffsets == {0, 1}

RequestDifficulties == {NoDifficulty, "hard"}

RequestClients == {NoHeader, "a"}

\* cache_key = f"{offset}-{limit}", and f"{cache_key}-{difficulty.value}"
\* when a difficulty is given.
cache_keyWithoutDifficulty(o, l, d) == ToString(o) \o "-" \o ToString(l)

cache_key(o, l, d) ==
    IF d # NoDifficulty
    THEN ToString(o) \o "-" \o ToString(l) \o "-" \o d
    ELSE ToString(o) \o "-" \o ToString(l)

CacheKeys ==
    {cache_key(o, l, d) : o \in RequestOffsets, l \in RequestLimits,
                          d \in RequestDifficulties}

\* `redis_connection.get(cache_key)` of a key that does not exist.
NoEntry == "(nil)"

\* json.dumps of a list of ints.
RECURSIVE DumpsInts(_)
DumpsInts(ids) ==
    IF ids = <<>> THEN ""
    ELSE ToString(Head(ids)) \o (IF Len(ids) > 1 THEN ", " ELSE "")
                             \o DumpsInts(Tail(ids))

\* json.dumps of one question with its answers; None becomes null.
DumpsQuestion(g) ==
    "{id: " \o ToString(g.id) \o ", difficulty: "
            \o (IF g.difficulty = NoDifficulty THEN "null" ELSE g.difficulty)
            \o ", answers: [" \o DumpsInts(g.answers) \o "]}"

RECURSIVE DumpsQuestions(_)
DumpsQuestions(gs) ==
    IF gs = <<>> THEN ""
    ELSE DumpsQuestion(Head(gs)) \o (IF Len(gs) > 1 THEN ", " ELSE "")
                                 \o DumpsQuestions(Tail(gs))

\* json.dumps(questions)
Dumps(gs) == "[" \o DumpsQuestions(gs) \o "]"

\* What list_questions returns for the stored questions.
Listed(l, o, d) == Group(Query(l, o, d))

\* The decimal texts the store holds for a counter: SET writes the text of
\* 1 and INCR that of the next integer.
IsCount(text) == \E n \in 0 .. (QUOTA + 1) : ToString(n) = text

\* int(text) of such a text.
CountOf(text) == CHOOSE n \in 0 .. (QUOTA + 1) : ToString(n) = text

\* json.loads: the list whose text this is.
Loads(text) ==
    LET lists == {Listed(l, o, d) : l \in RequestLimits, o \in RequestOffsets,
                                    d \in RequestDifficulties}
    IN IF IsCount(text) THEN CountOf(text)
       ELSE CHOOSE gs \in lists : Dumps(gs) = text

IdleRequest ==
    [pc |-> "idle", client_ip |-> NoHeader, limit |-> 0, offset |-> 0,
     difficulty |-> NoDifficulty, cache_key |-> "", limiter |-> "none",
     found |-> NoEntry, questions |-> <<>>, status |-> "none",
     gets |-> {}, sets |-> {}, lists |-> 0, stored |-> <<>>]

\* An empty cache and no request.
ReadIdle ==
    /\ cache = [k \in CacheKeys |-> NoEntry]
    /\ cacheTtl = [k \in CacheKeys |-> 0]
    /\ req = [w \in Workers |-> IdleRequest]

\* Two questions, the first easy with two answers, the second hard with one.
ReadTablesInit ==
    /\ questions = [q \in QuestionIds |->
                       IF q = 1 THEN "easy" ELSE IF q = 2 THEN "hard" ELSE "absent"]
    /\ answers = [a \in AnswerIds |-> IF a <= 2 THEN 1 ELSE IF a = 3 THEN 2 ELSE 0]
    /\ lq = IdleList

\* A window of the client in any of its stages: no key, one request left,
\* quota consumed.
ReadLimiterInit ==
    /\ \E n \in {None, QUOTA - 1, QUOTA} :
          /\ counter = [i \in Identifiers |-> IF i = "a" THEN n ELSE None]
          /\ ttl = [i \in Identifiers |-> i = "a" /\ n # None]
          /\ winAdmits = [i \in Identifiers |-> IF i = "a" THEN n ELSE 0]
    /\ redisUp = TRUE
    /\ chk = [w \in Workers |-> IdleCheck]
    /\ windows = [i \in Identifiers |-> 0]

\* What a step of a request outside the limiter leaves alone.
readFrame == <<sessionVars, tableVars, writeVars, endpointVars,
               counter, ttl, redisUp, winAdmits, windows>>

\* The response to a request that ends here.
Respond(r, status) == [r EXCEPT !.pc = "done", !.status = status]

\* get_questions: the handler is entered; with an x-forwarded-for header it
\* goes to the rate limiter first, without one straight to the cache.
SkipsLimiterNever(ip) == FALSE

SkipsLimiter(ip) == ip = NoHeader

get_questions(w, ip, l, o, d) ==
    /\ req[w].pc = "idle"
    /\ req' = [req EXCEPT ![w] =
                 [IdleRequest EXCEPT
                     !.pc = IF SkipsLimiter(ip) THEN "cache_get" ELSE "check",
                     !.limiter = IF SkipsLimiter(ip) THEN "skipped" ELSE "none",
                     !.client_ip = ip, !.limit = l, !.offset = o,
                     !.difficulty = d, !.cache_key = cache_key(o, l, d)]]
    /\ UNCHANGED <<cache, cacheTtl, chk>>
    /\ UNCHANGED readFrame

\* `rate_limiter.check(client_ip)` is called for the request's identifier.
CheckClient(w) ==
    /\ req[w].pc = "check"
    /\ CheckGet(w, req[w].client_ip)

\* `is_rate_limited = not rate_limiter.check(client_ip)`: a rejected request is
\* answered 429 at once, an admitted one goes on to the cache, and an error
\* of the counter store leaves the handler.
AfterCheckIgnoresResult(r, result) ==
    [r EXCEPT !.pc = "cache_get", !.limiter = result]

AfterCheck(r, result) ==
    IF result = "admit"
    THEN [r EXCEPT !.pc = "cache_get", !.limiter = "admit"]
    ELSE IF result = "reject"
         THEN Respond([r EXCEPT !.limiter = "reject"], "TooManyRequests")
         ELSE Respond([r EXCEPT !.limiter = "error"], "ServerError")

CheckDone(w) ==
    /\ req[w].pc = "check"
    /\ chk[w].pc = "done"
    /\ req' = [req EXCEPT ![w] = AfterCheck(req[w], chk[w].result)]
    /\ chk' = [chk EXCEPT ![w] = IdleCheck]
    /\ UNCHANGED <<cache, cacheTtl>>
    /\ UNCHANGED readFrame

\* `questions = redis_connection.get(cache_key)`; on a hit the handler returns
\* json.loads of the value, on a miss it goes on to the store.
IsHitNever(found) == FALSE

IsHit(found) == found # NoEntry

CacheGet(w) ==
    /\ req[w].pc = "cache_get"
    /\ LET r == req[w]
           k == r.cache_key
       IN req' = [req EXCEPT ![w] =
                    IF ~redisUp
                    THEN Respond(r, "ServerError")
                    ELSE LET read == [r EXCEPT !.found = cache[k],
                                               !.gets = @ \cup {k}]
                         IN IF IsHit(cache[k])
                            THEN Respond([read EXCEPT
                                            !.questions = Loads(cache[k])], "OK")
                            ELSE [read EXCEPT !.pc = "list"]]
    /\ UNCHANGED <<cache, cacheTtl, chk>>
    /\ UNCHANGED readFrame

\* `questions = list_questions(limit=limit, offset=offset, difficulty=...)`;
\* an error of the relational store leaves the handler.
ListQuestions(w) ==
    /\ req[w].pc = "list"
    /\ LET r == req[w]
           called == [r EXCEPT !.lists = @ + 1]
       IN \E outcome \in {"ok", TransportError("postgres")} :
            req' = [req EXCEPT ![w] =
                      IF outcome = "ok"
                      THEN [called EXCEPT
                              !.pc = "cache_set",
                              !.questions = Listed(r.limit, r.offset, r.difficulty)]
                      ELSE Respond(called, "ServerError")]
    /\ UNCHANGED <<cache, cacheTtl, chk>>
    /\ UNCHANGED readFrame

\* `redis_connection.set(cache_key, json.dumps(questions))`. SET drops any
\* expiry the key had.
CacheSet(w) ==
    /\ req[w].pc = "cache_set"
    /\ LET r == req[w]
           k == r.cache_key
       IN IF ~redisUp
          THEN /\ req' = [req EXCEPT ![w] = Respond(r, "ServerError")]
               /\ UNCHANGED <<cache, cacheTtl>>
          ELSE /\ cache' = [cache EXCEPT ![k] = Dumps(r.questions)]
               /\ cacheTtl' = [cacheTtl EXCEPT ![k] = 0]
               /\ req' = [req EXCEPT ![w].pc = "cache_expire",
                                     ![w].sets = @ \cup {k}]
    /\ UNCHANGED chk
    /\ UNCHANGED readFrame

\* `redis_connection.expire(cache_key, 60)`, then the handler returns the
\* questions. EXPIRE on a key that no longer exists does nothing.
CacheSetExpiry(w) ==
    /\ req[w].pc = "cache_expire"
    /\ LET r == req[w]
           k == r.cache_key
       IN IF ~redisUp
          THEN /\ req' = [req EXCEPT ![w] = Respond(r, "ServerError")]
               /\ UNCHANGED cacheTtl
          ELSE /\ cacheTtl' = [cacheTtl EXCEPT ![k] =
                                 IF cache[k] # NoEntry THEN CACHE_EXPIRY ELSE 0]
               /\ req' = [req EXCEPT ![w] =
                            Respond([r EXCEPT !.stored =
                                       <<cache[k], cacheTtl'[k]>>], "OK")]
    /\ UNCHANGED <<cache, chk>>
    /\ UNCHANGED readFrame

\* The store deletes a cache entry whose expiry has passed.
CacheEntryExpires(k) ==
    /\ cache[k] # NoEntry
    /\ cacheTtl[k] # 0
    /\ cache' = [cache EXCEPT ![k] = NoEntry]
    /\ cacheTtl' = [cacheTtl EXCEPT ![k] = 0]
    /\ UNCHANGED <<req, chk>>
    /\ UNCHANGED readFrame

\* Half a cache window of time.
HalfWindow == CACHE_EXPIRY \div 2

\* Time passes: every running expiry comes HalfWindow nearer, and the store
\* deletes the entries whose expiry is reached. A key without expiry stays.
Tick ==
    /\ \E k \in CacheKeys : cacheTtl[k] # 0
    /\ cache' = [k \in CacheKeys |->
                    IF cacheTtl[k] \in 1 .. HalfWindow THEN NoEntry ELSE cache[k]]
    /\ cacheTtl' = [k \in CacheKeys |->
                       IF cacheTtl[k] > HalfWindow THEN cacheTtl[k] - HalfWindow ELSE 0]
    /\ UNCHANGED <<req, chk>>
    /\ UNCHANGED readFrame

\* `self.connection.expire(identifier, RateLimiter.INTERVAL)`
INTERVAL == 60

\* rate_limiter.check(client_ip) for a header value that has the text of a
\* cache key. Both modules connect to database 0 of the one store and use
\* the text as the key, so the commands act on the entry the cache holds
\* under that key: GET; on no value SET 1 and EXPIRE; on a value
\* int(current_count), which raises ValueError for a text that is no
\* integer, then INCR under the quota and nothing at the quota.
CheckSharedKey(w) ==
    /\ req[w].pc = "check"
    /\ req[w].client_ip \in CacheKeys
    /\ LET r == req[w]
           i == r.client_ip
           current_count == cache[i]
       IN
       IF ~redisUp
       THEN /\ req' = [req EXCEPT ![w] = AfterCheck(r, "error")]
            /\ UNCHANGED <<cache, cacheTtl>>
       ELSE IF current_count = NoEntry
       THEN /\ cache' = [cache EXCEPT ![i] = ToString(FirstValue)]
            /\ cacheTtl' = [cacheTtl EXCEPT ![i] = INTERVAL]
            /\ req' = [req EXCEPT ![w] = AfterCheck(r, "admit")]
       ELSE IF ~IsCount(current_count)
       THEN /\ req' = [req EXCEPT ![w] = AfterCheck(r, "ValueError")]
            /\ UNCHANGED <<cache, cacheTtl>>
       ELSE IF UnderQuota(CountOf(current_count))
       THEN /\ cache' = [cache EXCEPT ![i] = ToString(CountOf(current_count) + 1)]
            /\ req' = [req EXCEPT ![w] = AfterCheck(r, "admit")]
            /\ UNCHANGED cacheTtl
       ELSE /\ req' = [req EXCEPT ![w] = AfterCheck(r, "reject")]
            /\ UNCHANGED <<cache, cacheTtl>>
    /\ UNCHANGED chk
    /\ UNCHANGED readFrame

(***************************************************************************)
(* GET /_health                                                            *)
(***************************************************************************)
\* The liveness checks in the order _health runs them: db_health,
\* mongo_health, rabbitmq_health, redis_health.
HealthChecks == <<"postgres", "mongo", "rabbit", "redis">>

\* Whether the dependency answers now.
IsUp(s) == IF s = "redis" THEN redisUp ELSE s \notin down

\* mongo_database.health, which main.py imports: it raises when the document
\* store does not answer.
MongoHealthOutcomes == IF IsUp("mongo") THEN {"ok"} ELSE {"Unavailable"}

\* What a liveness check can meet. db_health runs under the retry wrapper of
\* database.py, so a stale handle is replaced and only a failing backend makes
\* it raise; queueing.health has no wrapper, so a lost stream of the cached
\* connection raises; a passive queue_declare of a missing queue raises
\* ChannelClosedByBroker, which health catches.
HealthOutcomes(s) ==
    IF s = "mongo" THEN MongoHealthOutcomes
    ELSE IF ~IsUp(s) THEN {"Unavailable"}
    ELSE IF s = "rabbit" THEN {"ok", "ChannelClosedByBroker", "StreamLostError"}
    ELSE {"ok"}

\* The check raises to _health.
CheckRaises(outcome) == outcome \notin {"ok", "ChannelClosedByBroker"}

IdleHealth ==
    [pc |-> "idle", client_ip |-> NoHeader, limiter |-> "none",
     checks |-> <<>>, sawDown |-> {}, status |-> "none"]

HealthIdle ==
    /\ down = {}
    /\ hreq = [w \in Workers |-> IdleHealth]

healthFrame == <<sessionVars, tableVars, writeVars, readVars, postVars, streamVars,
                 counter, ttl, redisUp, winAdmits, windows>>

\* _health: the handler is entered; with an x-forwarded-for header it goes to
\* the rate limiter first.
_health(w, ip) ==
    /\ hreq[w].pc = "idle"
    /\ hreq' = [hreq EXCEPT ![w] =
                  [IdleHealth EXCEPT
                      !.pc = IF SkipsLimiter(ip) THEN "checks" ELSE "check",
                      !.limiter = IF SkipsLimiter(ip) THEN "skipped" ELSE "none",
                      !.client_ip = ip]]
    /\ UNCHANGED <<down, chk>>
    /\ UNCHANGED healthFrame

\* `rate_limiter.check(identifier=client_ip)` is called.
HealthCheckClient(w) ==
    /\ hreq[w].pc = "check"
    /\ CheckGet(w, hreq[w].client_ip)

\* `is_rate_limited = not rate_limiter.check(...)`, then 429 when limited; an
\* error of the counter store leaves the handler.
HealthAfterLimiterIgnoresResult(r, result) ==
    [r EXCEPT !.pc = "checks", !.limiter = result]

HealthAfterLimiter(r, result) ==
    IF result = "admit"
    THEN [r EXCEPT !.pc = "checks", !.limiter = "admit"]
    ELSE IF result = "reject"
         THEN [r EXCEPT !.pc = "done", !.limiter = "reject",
                        !.status = "TooManyRequests"]
         ELSE [r EXCEPT !.pc = "done", !.limiter = "error",
                        !.status = "ServerError"]

HealthLimiterDone(w) ==
    /\ hreq[w].pc = "check"
    /\ chk[w].pc = "done"
    /\ hreq' = [hreq EXCEPT ![w] = HealthAfterLimiter(hreq[w], chk[w].result)]
    /\ chk' = [chk EXCEPT ![w] = IdleCheck]
    /\ UNCHANGED down
    /\ UNCHANGED healthFrame

\* One `try: x_health() except Exception: raise HTTPException(500)`; after
\* the last one `return StatusResponse(status="Up")`.
AfterHealthCheckLogsOnly(r, outcome) ==
    LET seen == [r EXCEPT !.checks = Append(@, outcome)]
    IN IF Len(seen.checks) = Len(HealthChecks)
       THEN [seen EXCEPT !.pc = "done", !.status = "Up"]
       ELSE seen

AfterHealthCheck(r, outcome) ==
    LET seen == [r EXCEPT !.checks = Append(@, outcome)]
    IN IF CheckRaises(outcome)
       THEN [seen EXCEPT !.pc = "done", !.status = "ServerError"]
       ELSE IF Len(seen.checks) = Len(HealthChecks)
            THEN [seen EXCEPT !.pc = "done", !.status = "Up"]
            ELSE seen

HealthCheck(w) ==
    /\ hreq[w].pc = "checks"
    /\ LET s == HealthChecks[Len(hreq[w].checks) + 1]
           r == [hreq[w] EXCEPT !.sawDown = IF IsUp(s) THEN @ ELSE @ \cup {s}]
       IN \E outcome \in HealthOutcomes(s) :
            hreq' = [hreq EXCEPT ![w] = AfterHealthCheck(r, outcome)]
    /\ UNCHANGED <<down, chk>>
    /\ UNCHANGED healthFrame

\* A dependency stops or starts answering.
DependencyDown(s) ==
    /\ s \notin down
    /\ down' = down \cup {s}
    /\ UNCHANGED <<hreq, chk>>
    /\ UNCHANGED healthFrame

DependencyUp(s) ==
    /\ s \in down
    /\ down' = down \ {s}
    /\ UNCHANGED <<hreq, chk>>
    /\ UNCHANGED healthFrame

(***************************************************************************)
(* POST /questions and POST /questions/bulk                                *)
(***************************************************************************)
\* The bearer token get_current_user accepts.
ADMIN_PASSWORD == "admin-password"

\* The request carries no Authorization header.
NoToken == "(no token)"

Tokens == {NoToken, "wrong", ADMIN_PASSWORD}

\* OAuth2PasswordBearer refuses a request without a bearer token and
\* get_current_user one whose token is not ADMIN_PASSWORD: both with 401.
AuthorizedAlways(token) == TRUE

Authorized(token) == token # NoToken /\ token = ADMIN_PASSWORD

IdlePost ==
    [pc |-> "idle", path |-> "none", token |-> NoToken, items |-> <<>>,
     question_id |-> None, inserted_ids |-> <<>>, skipped_rows |-> <<>>,
     next |-> 0, attempt |-> 0, published |-> <<>>, error |-> "none",
     status |-> "none", body |-> <<>>, mongo_done |-> FALSE]

PostIdle ==
    /\ preq = [w \in Workers |-> IdlePost]
    /\ queue = <<>>

postFrame == <<sessionVars, limiterVars, tableVars, writeVars, readVars,
               healthVars, streamVars>>

\* The handler ends with this response.
PostRespond(r, status) == [r EXCEPT !.pc = "done", !.status = status]

\* An exception no handler catches leaves the path function: 500.
PostFails(r, err) == [r EXCEPT !.pc = "done", !.status = "500", !.error = err]

\* The dependencies of a path function run first; the body runs only for an
\* authorized request.
BeginPost(w, path, token, items) ==
    /\ preq[w].pc = "idle"
    /\ preq' = [preq EXCEPT ![w] =
                  LET r == [IdlePost EXCEPT !.path = path, !.token = token,
                                            !.items = items]
                  IN IF Authorized(token)
                     THEN [r EXCEPT !.pc = "create"]
                     ELSE PostRespond(r, "401")]
    /\ UNCHANGED queue
    /\ UNCHANGED postFrame

post_question(w, token, item) == BeginPost(w, "single", token, <<item>>)

post_bulk_questions(w, token, items) == BeginPost(w, "bulk", token, items)

\* `create_question(**question.dict())` or `create_questions_bulk(questions)`
\* is called.
PostCreate(w) ==
    /\ preq[w].pc = "create"
    /\ BeginWrite(w, preq[w].path, preq[w].items)

\* post_question: `except UniqueViolation` gives 400, `except Exception` 500;
\* post_bulk_questions has no handler.
OnCreateErrorAlways500(r, err) == PostRespond([r EXCEPT !.error = err], "500")

OnCreateError(r, err) ==
    IF r.path = "single" /\ err = "UniqueViolation"
    THEN PostRespond([r EXCEPT !.error = err], "400")
    ELSE IF r.path = "single"
         THEN PostRespond([r EXCEPT !.error = err], "500")
         ELSE PostFails(r, err)

\* The write has returned or raised.
PostAfterCreate(w) ==
    /\ preq[w].pc = "create"
    /\ wr[w].pc \in {"returned", "raised"}
    /\ LET r == preq[w]
           c == wr[w]
       IN preq' = [preq EXCEPT ![w] =
            IF c.pc = "raised" THEN OnCreateError(r, c.outcome)
            ELSE IF r.path = "single" /\ c.inserted_id = None
                 THEN PostRespond(r, "500")
                 ELSE [r EXCEPT !.pc = "mongo",
                                !.question_id = c.inserted_id,
                                !.inserted_ids =
                                    IF r.path = "single" THEN <<c.inserted_id>>
                                    ELSE c.inserted_ids,
                                !.skipped_rows = c.skipped_rows]]
    /\ UNCHANGED queue
    /\ UNCHANGED postFrame

\* After the last publish post_question fetches the entity and
\* post_bulk_questions returns.
AfterPublish(r) ==
    IF r.next < Len(r.inserted_ids)
    THEN [r EXCEPT !.pc = "publish", !.next = @ + 1, !.attempt = 1]
    ELSE IF r.path = "single"
         THEN [r EXCEPT !.pc = "fetch"]
         ELSE PostRespond(r, "200")

\* What the write to the document store can end with: insert_one raises
\* DuplicateKeyError for a stored text, which create_question re-raises and
\* create_questions_bulk records as a skipped row; a store that does not
\* answer makes the wrapper's second execution raise too.
MongoWriteOutcomes(path) ==
    IF ~IsUp("mongo") THEN {TransportError("mongo")}
    ELSE IF path = "single" THEN {"ok", "DuplicateKeyError"}
    ELSE {"ok"}

\* `create_question_mongo(**question.dict())` or
\* `create_questions_bulk_mongo(questions)`: an exception leaves the handler.
\* Neither path function has a handler around the document-store call.
OnMongoErrorCarriesOn(r, err) == AfterPublish([r EXCEPT !.error = err])

OnMongoError(r, err) == PostFails(r, err)

PostMongo(w) ==
    /\ preq[w].pc = "mongo"
    /\ \E outcome \in MongoWriteOutcomes(preq[w].path) :
         preq' = [preq EXCEPT ![w] =
                    IF outcome = "ok"
                    THEN AfterPublish([preq[w] EXCEPT !.mongo_done = TRUE])
                    ELSE OnMongoError(preq[w], outcome)]
    /\ UNCHANGED queue
    /\ UNCHANGED postFrame

\* publish: get_rabbit_connection(), channel(), queue_declare and
\* basic_publish of the task for inserted_ids[next]. A broker that does not
\* answer makes the call raise; a lost stream of the cached connection raises
\* StreamLostError before the message is sent, and the wrapper then runs
\* publish again once with a new connection.
PublishSend(w) ==
    /\ preq[w].pc = "publish"
    /\ LET r == preq[w]
           id == r.inserted_ids[r.next]
       IN \E outcome \in (IF IsUp("rabbit") THEN {"ok", TransportError("rabbit")}
                          ELSE {ConnectError("rabbit")}) :
            IF outcome = "ok"
            THEN /\ queue' = Append(queue, id)
                 /\ preq' = [preq EXCEPT ![w].pc = "publish_close",
                                         ![w].published = Append(@, id)]
            ELSE /\ UNCHANGED queue
                 /\ preq' = [preq EXCEPT ![w] =
                               IF ShouldRetry("rabbit", r.attempt, outcome)
                               THEN [r EXCEPT !.attempt = 2]
                               ELSE PostFails(r, outcome)]
    /\ UNCHANGED postFrame

\* publish: `channel.close()` after the message was sent. When the stream is
\* lost here the wrapper runs publish again, and the task is sent twice.
PublishClose(w) ==
    /\ preq[w].pc = "publish_close"
    /\ LET r == preq[w] IN
       \E outcome \in {"ok", TransportError("rabbit")} :
         preq' = [preq EXCEPT ![w] =
                    IF outcome = "ok" THEN AfterPublish(r)
                    ELSE IF ShouldRetry("rabbit", r.attempt, outcome)
                         THEN [r EXCEPT !.pc = "publish", !.attempt = 2]
                         ELSE PostFails(r, outcome)]
    /\ UNCHANGED queue
    /\ UNCHANGED postFrame

\* The committed row of a question and its answers, as fetch_question and
\* fetch_question_answers read them.
Entity(question_id) ==
    [id |-> question_id, question |-> qtext[question_id],
     answers |-> {a \in DOMAIN answers : answers[a] = question_id}]

\* post_question: `fetch_question(question_id)`,
\* `fetch_question_answers(question_id=question_id)` and the 201 response with
\* the entity; an error of the relational store leaves the handler.
PostFetch(w) ==
    /\ preq[w].pc = "fetch"
    /\ LET r == preq[w] IN
       \E outcome \in {"ok", TransportError("postgres")} :
         preq' = [preq EXCEPT ![w] =
                    IF outcome = "ok"
                    THEN PostRespond([r EXCEPT !.body = <<Entity(r.question_id)>>],
                                     "201")
                    ELSE PostFails(r, outcome)]
    /\ UNCHANGED queue
    /\ UNCHANGED postFrame

(***************************************************************************)
(* The /ws notification endpoint                                           *)
(***************************************************************************)
\* `await asyncio.sleep(5)`
SLEEP == 5

\* most_recent_question_id: `SELECT id FROM questions ORDER BY id DESC LIMIT 1`
\* and `rows[0][0]`; None here stands for the IndexError of an empty table.
most_recent_question_id ==
    LET present == {q \in DOMAIN questions : questions[q] # "absent"}
    IN IF present = {} THEN None
       ELSE CHOOSE q \in present : \A p \in present : p <= q

\* recent_questions_count: `SELECT count(id) FROM questions WHERE id > ...`
recent_questions_count(last_question_id) ==
    Cardinality({q \in DOMAIN questions :
                    questions[q] # "absent" /\ q > last_question_id})

\* peer: whether the client is still there; client_state: what the loop reads
\* in websocket.client_state; since: the time slept since the last
\* notification, counted up to SLEEP; sent: the notifications, each with the
\* count it reported, the id known at its poll and the time slept before it.
IdleStream ==
    [pc |-> "idle", peer |-> "connected", client_state |-> "CONNECTED",
     recent_question_id |-> None, recent_questions |-> 0, since |-> 0,
     sent |-> <<>>, error |-> "none"]

StreamIdle == ws = IdleStream

streamFrame == <<sessionVars, limiterVars, answers, lq, txn, wr, readVars,
                 healthVars, postVars>>

\* An exception no handler catches ends the handler.
StreamFails(r, err) == [r EXCEPT !.pc = "ended", !.error = err]

\* What a query of the relational store can end with.
QueryOutcomes == {"ok", TransportError("postgres")}

\* `await websocket.accept()` and `recent_question_id = most_recent_question_id()`.
websocket_endpoint ==
    /\ ws.pc = "idle"
    /\ \E outcome \in QueryOutcomes :
         ws' = IF outcome # "ok" THEN StreamFails(ws, outcome)
               ELSE IF most_recent_question_id = None
               THEN StreamFails(ws, "IndexError")
               ELSE [ws EXCEPT !.pc = "top",
                               !.recent_question_id = most_recent_question_id]
    /\ UNCHANGED <<questions, qtext, serial>>
    /\ UNCHANGED streamFrame

\* `if websocket.client_state != WebSocketState.CONNECTED: break`
SeesDisconnectNever(state) == FALSE

SeesDisconnect(state) == state # "CONNECTED"

LoopTop ==
    /\ ws.pc = "top"
    /\ ws' = IF SeesDisconnect(ws.client_state)
             THEN [ws EXCEPT !.pc = "ended"]
             ELSE [ws EXCEPT !.pc = "poll"]
    /\ UNCHANGED <<questions, qtext, serial>>
    /\ UNCHANGED streamFrame

\* `if recent_questions > 0`
ShouldNotifyAlways(recent_questions) == TRUE

ShouldNotify(recent_questions) == recent_questions > 0

\* `recent_questions = recent_questions_count(recent_question_id)` and the
\* branch on it.
Poll ==
    /\ ws.pc = "poll"
    /\ LET n == recent_questions_count(ws.recent_question_id) IN
       \E outcome \in QueryOutcomes :
         ws' = IF outcome # "ok" THEN StreamFails(ws, outcome)
               ELSE [ws EXCEPT !.recent_questions = n,
                               !.pc = IF ShouldNotify(n) THEN "send" ELSE "sleep"]
    /\ UNCHANGED <<questions, qtext, serial>>
    /\ UNCHANGED streamFrame

\* `await websocket.send_text(...)`: to a peer that is there it succeeds; to
\* one that is gone it succeeds unnoticed, raises ConnectionClosedError, which
\* the loop catches and breaks on, or raises another exception, which ends
\* the handler.
Send ==
    /\ ws.pc = "send"
    /\ \E outcome \in (IF ws.peer = "connected" THEN {"ok"}
                       ELSE {"ok", "ConnectionClosedError", "WebSocketDisconnect"}) :
         ws' = IF outcome = "ok"
               THEN [ws EXCEPT
                       !.pc = "refresh",
                       !.since = 0,
                       !.sent = Append(@, [count |-> ws.recent_questions,
                                           known |-> ws.recent_question_id,
                                           newest |-> most_recent_question_id,
                                           slept |-> ws.since])]
               ELSE [ws EXCEPT !.pc = "ended",
                               !.error = IF outcome = "ConnectionClosedError"
                                         THEN "none" ELSE outcome]
    /\ UNCHANGED <<questions, qtext, serial>>
    /\ UNCHANGED streamFrame

\* `recent_question_id = most_recent_question_id()` after a notification,
\* then the end of the loop body.
AfterRefreshNoSleep(r) == [r EXCEPT !.pc = "top"]

AfterRefresh(r) == [r EXCEPT !.pc = "sleep"]

Refresh ==
    /\ ws.pc = "refresh"
    /\ \E outcome \in QueryOutcomes :
         ws' = IF outcome # "ok" THEN StreamFails(ws, outcome)
               ELSE AfterRefresh([ws EXCEPT !.recent_question_id =
                                               most_recent_question_id])
    /\ UNCHANGED <<questions, qtext, serial>>
    /\ UNCHANGED streamFrame

\* `await asyncio.sleep(5)`, then the next cycle.
Sleep ==
    /\ ws.pc = "sleep"
    /\ ws' = [ws EXCEPT !.pc = "top",
                        !.since = IF @ + SLEEP > SLEEP THEN SLEEP ELSE @ + SLEEP]
    /\ UNCHANGED <<questions, qtext, serial>>
    /\ UNCHANGED streamFrame

\* The peer goes away.
PeerDisconnects ==
    /\ ws.pc # "idle"
    /\ ws.peer = "connected"
    /\ ws' = [ws EXCEPT !.peer = "gone"]
    /\ UNCHANGED <<questions, qtext, serial>>
    /\ UNCHANGED streamFrame

\* The framework records the disconnect in client_state. It does so when the
\* application receives the disconnect message; the loop itself never
\* receives.
DisconnectRecorded ==
    /\ ws.peer = "gone"
    /\ ws.client_state = "CONNECTED"
    /\ ws' = [ws EXCEPT !.client_state = "DISCONNECTED"]
    /\ UNCHANGED <<questions, qtext, serial>>
    /\ UNCHANGED streamFrame

\* Another request commits a new question, under the next id.
QuestionCreated ==
    /\ \E q \in DOMAIN questions :
          /\ questions[q] = "absent"
          /\ \A p \in DOMAIN questions : questions[p] # "absent" => p < q
          /\ \A p \in DOMAIN questions : p < q => questions[p] # "absent"
          /\ questions' = [questions EXCEPT ![q] = NoDifficulty]
          /\ qtext' = [qtext EXCEPT ![q] = q]
          /\ serial' = [serial EXCEPT !.q = q + 1]
    /\ UNCHANGED ws
    /\ UNCHANGED streamFrame

\* No endpoint is serving a request.
EndpointsIdle == HealthIdle /\ PostIdle /\ StreamIdle

(***************************************************************************)
(* Specifications                                                          *)
(***************************************************************************)
SessionNext ==
    \/ \E w \in Workers : Call(w)
    \/ \E w \in Workers : \E f \in BOOLEAN : DirectAcquire(w, f)
    \/ \E w \in Workers : AcquireCheck(w)
    \/ \E w \in Workers : ConnectOk(w)
    \/ \E w \in Workers : ConnectFail(w)
    \/ \E w \in Workers : Run(w)
    \/ \E w \in Workers : Return(w)
    \/ \E hh \in 1 .. MaxHandles : ServerClose(hh)
    \/ BackendDown
    \/ BackendUp

InitSession == SessionInit /\ LimiterInit /\ TablesEmpty /\ WriteIdle /\ ReadIdle /\ EndpointsIdle

SpecSession ==
    /\ InitSession
    /\ [][SessionNext]_vars

\* One client thread, a store that answers: checks run one after the other,
\* keys expire at any moment.
LimiterSeqNext ==
    \/ \E i \in Identifiers : CheckGet("w1", i)
    \/ FirstRequestSet("w1")
    \/ FirstRequestExpire("w1")
    \/ Increment("w1")
    \/ CheckReturn("w1")
    \/ \E i \in Identifiers : Expire(i)

InitLimiterSeq == SessionIdle /\ LimiterInit /\ TablesEmpty /\ WriteIdle /\ ReadIdle /\ EndpointsIdle

SpecLimiterSeq ==
    /\ InitLimiterSeq
    /\ [][LimiterSeqNext]_vars

\* Every worker checks concurrently, all for one client, and the store may
\* stop answering.
LimiterNext ==
    \/ \E w \in Workers : CheckGet(w, "a")
    \/ \E w \in Workers : FirstRequestSet(w)
    \/ \E w \in Workers : FirstRequestExpire(w)
    \/ \E w \in Workers : Increment(w)
    \/ \E w \in Workers : CheckReturn(w)
    \/ Expire("a")
    \/ RedisDown
    \/ RedisUp

InitLimiter == SessionIdle /\ LimiterInit /\ TablesEmpty /\ WriteIdle /\ ReadIdle /\ EndpointsIdle

SpecLimiter ==
    /\ InitLimiter
    /\ [][LimiterNext]_vars

ListNext ==
    \/ \E l \in Limits : \E o \in Offsets :
          \E d \in Difficulties \cup {NoDifficulty} : list_questions(l, o, d)
    \/ ListReturn

InitList == SessionIdle /\ LimiterInit /\ TablesInit /\ WriteIdle /\ ReadIdle /\ EndpointsIdle

SpecList ==
    /\ InitList
    /\ [][ListNext]_vars

\* One worker makes one write call on a store earlier writes have filled; the
\* server may close the connection at any moment.
WriteNext ==
    \/ \E item \in Items : create_question("w1", item)
    \/ \E items \in Batches : create_questions_bulk("w1", items)
    \/ InsertQuestion("w1")
    \/ InsertAnswer("w1")
    \/ ExitCommit("w1")
    \/ Unwind("w1")
    \/ \E hh \in Handles : ConnectionLost(hh)

InitWrite == SessionIdle /\ LimiterInit /\ WriteStoreInit /\ ReadIdle /\ EndpointsIdle

SpecWrite ==
    /\ InitWrite
    /\ [][WriteNext]_vars

\* Two workers write at the same time through the one cached connection.
WriteConcNext ==
    \/ \E w \in Workers : \E item \in Items : create_question(w, item)
    \/ \E w \in Workers : InsertQuestion(w)
    \/ \E w \in Workers : InsertAnswer(w)
    \/ \E w \in Workers : ExitCommit(w)
    \/ \E w \in Workers : Unwind(w)
    \/ \E hh \in Handles : ConnectionLost(hh)

InitWriteConc == SessionIdle /\ LimiterInit /\ WriteTablesEmpty /\ WriteIdle /\ ReadIdle /\ EndpointsIdle

SpecWriteConc ==
    /\ InitWriteConc
    /\ [][WriteConcNext]_vars

ReadNext ==
    \/ \E w \in Workers : \E ip \in RequestClients : \E l \in RequestLimits :
         \E o \in RequestOffsets : \E d \in RequestDifficulties :
           get_questions(w, ip, l, o, d)
    \/ \E w \in Workers : CheckClient(w)
    \/ \E w \in Workers : FirstRequestSet(w)
    \/ \E w \in Workers : FirstRequestExpire(w)
    \/ \E w \in Workers : Increment(w)
    \/ \E w \in Workers : CheckDone(w)
    \/ \E w \in Workers : CacheGet(w)
    \/ \E w \in Workers : ListQuestions(w)
    \/ \E w \in Workers : CacheSet(w)
    \/ \E w \in Workers : CacheSetExpiry(w)
    \/ \E k \in CacheKeys : CacheEntryExpires(k)
    \/ RedisDown
    \/ RedisUp

InitRead ==
    SessionIdle /\ ReadLimiterInit /\ ReadTablesInit /\ WriteIdle /\ ReadIdle /\ EndpointsIdle

SpecRead == InitRead /\ [][ReadNext]_vars

HealthNext ==
    \/ \E ip \in RequestClients : _health("w1", ip)
    \/ HealthCheckClient("w1")
    \/ FirstRequestSet("w1")
    \/ FirstRequestExpire("w1")
    \/ Increment("w1")
    \/ HealthLimiterDone("w1")
    \/ HealthCheck("w1")
    \/ \E s \in Stores : DependencyDown(s)
    \/ \E s \in Stores : DependencyUp(s)
    \/ RedisDown
    \/ RedisUp

InitHealth ==
    SessionIdle /\ ReadLimiterInit /\ TablesEmpty /\ WriteIdle /\ ReadIdle /\ EndpointsIdle

SpecHealth == InitHealth /\ [][HealthNext]_vars

PostNext ==
    \/ \E token \in Tokens : \E item \in Items : post_question("w1", token, item)
    \/ PostCreate("w1")
    \/ InsertQuestion("w1")
    \/ InsertAnswer("w1")
    \/ ExitCommit("w1")
    \/ Unwind("w1")
    \/ \E hh \in Handles : ConnectionLost(hh)
    \/ PostAfterCreate("w1")
    \/ PostMongo("w1")
    \/ PublishSend("w1")
    \/ PublishClose("w1")
    \/ PostFetch("w1")
    \/ \E s \in {"mongo", "rabbit"} : DependencyDown(s)
    \/ \E s \in {"mongo", "rabbit"} : DependencyUp(s)

InitPost == SessionIdle /\ LimiterInit /\ WriteStoreInit /\ ReadIdle /\ EndpointsIdle

SpecPost == InitPost /\ [][PostNext]_vars

BulkNext ==
    \/ \E token \in Tokens : \E items \in Batches :
         post_bulk_questions("w1", token, items)
    \/ PostCreate("w1")
    \/ InsertQuestion("w1")
    \/ InsertAnswer("w1")
    \/ ExitCommit("w1")
    \/ Unwind("w1")
    \/ \E hh \in Handles : ConnectionLost(hh)
    \/ PostAfterCreate("w1")
    \/ PostMongo("w1")
    \/ PublishSend("w1")
    \/ PublishClose("w1")
    \/ \E s \in {"mongo", "rabbit"} : DependencyDown(s)
    \/ \E s \in {"mongo", "rabbit"} : DependencyUp(s)

SpecBulk == InitPost /\ [][BulkNext]_vars

StreamNext ==
    \/ websocket_endpoint
    \/ LoopTop
    \/ Poll
    \/ Send
    \/ Refresh
    \/ Sleep
    \/ PeerDisconnects
    \/ DisconnectRecorded
    \/ QuestionCreated

\* The table holds no question or one, and has room for some more.
StreamTablesInit ==
    /\ \E n \in {0, 1} :
         questions = [q \in 1 .. MaxQuestions + 1 |->
                         IF q <= n THEN NoDifficulty ELSE "absent"]
    /\ answers = [a \in AnswerIds |-> 0]
    /\ lq = IdleList

InitStream ==
    SessionIdle /\ LimiterInit /\ StreamTablesInit /\ WriteIdle /\ ReadIdle /\ EndpointsIdle

SpecStream == InitStream /\ [][StreamNext]_vars

\* The event loop runs every step of the handler that is ready.
SpecStreamFair ==
    /\ InitStream
    /\ [][StreamNext]_vars
    /\ WF_vars(LoopTop)
    /\ WF_vars(Poll)
    /\ WF_vars(Send)
    /\ WF_vars(Refresh)
    /\ WF_vars(Sleep)

\* The grouping of list_questions applied to every row sequence.
GroupNext ==
    \/ lq.pc = "idle" /\ \E rows \in RowSequences : GroupFetched(rows)
    \/ ListReturn

InitGroup == SessionIdle /\ LimiterInit /\ TablesEmpty /\ WriteIdle /\ ReadIdle /\ EndpointsIdle

SpecGroup == InitGroup /\ [][GroupNext]_vars

\* A page is read while no write is under way; then a question is created
\* while the caller holds the page.
ReadPage(l, o) ==
    /\ \A w \in Workers : wr[w].pc = "idle"
    /\ list_questions(l, o, NoDifficulty)

PageNext ==
    \/ \E l \in Limits : \E o \in Offsets : ReadPage(l, o)
    \/ ListReturn
    \/ \E item \in Items : create_question("w1", item)
    \/ InsertQuestion("w1")
    \/ InsertAnswer("w1")
    \/ ExitCommit("w1")
    \/ Unwind("w1")
    \/ \E hh \in Handles : ConnectionLost(hh)

InitPage == SessionIdle /\ LimiterInit /\ WriteStoreInit /\ ReadIdle /\ EndpointsIdle

SpecPage == InitPage /\ [][PageNext]_vars

\* Two requests for the first page of two, questions created meanwhile,
\* time passing, and a cache store that may stop answering.
StaleNext ==
    \/ \E w \in Workers : get_questions(w, NoHeader, 2, 0, NoDifficulty)
    \/ \E w \in Workers : CacheGet(w)
    \/ \E w \in Workers : ListQuestions(w)
    \/ \E w \in Workers : CacheSet(w)
    \/ \E w \in Workers : CacheSetExpiry(w)
    \/ QuestionCreated
    \/ Tick
    \/ RedisDown
    \/ RedisUp

\* One question with two answers is stored.
StaleTablesInit ==
    /\ questions = [q \in QuestionIds |-> IF q = 1 THEN "easy" ELSE "absent"]
    /\ answers = [a \in AnswerIds |-> IF a <= 2 THEN 1 ELSE 0]
    /\ lq = IdleList

InitStale ==
    SessionIdle /\ LimiterInit /\ StaleTablesInit /\ WriteIdle /\ ReadIdle /\ EndpointsIdle

SpecStale == InitStale /\ [][StaleNext]_vars

\* Requests for the first page of one or two questions, from a client that
\* sends no x-forwarded-for header and from one whose header value is "0-1",
\* while time passes.
SharedKeyClients == {NoHeader, cache_key(0, 1, NoDifficulty)}

KeysNext ==
    \/ \E w \in Workers : \E ip \in SharedKeyClients : \E l \in RequestLimits :
          get_questions(w, ip, l, 0, NoDifficulty)
    \/ \E w \in Workers : CheckSharedKey(w)
    \/ \E w \in Workers : CacheGet(w)
    \/ \E w \in Workers : ListQuestions(w)
    \/ \E w \in Workers : CacheSet(w)
    \/ \E w \in Workers : CacheSetExpiry(w)
    \/ Tick

SpecKeys == InitStale /\ [][KeysNext]_vars

(***************************************************************************)
(* Resilient session: properties                                           *)
(***************************************************************************)
Wrapped(c) == c.attempt >= 1

Finished(c) == c.pc = "done"

\* C1 as stated: whenever the first execution of a wrapped call failed with
\* the transport error, the finished call has made one forced acquire and
\* exactly two executions, and its outcome is that of the second execution.
C1_RetryAlwaysReexecutes ==
    \A w \in Workers :
        LET c == call[w] IN
        (Wrapped(c) /\ Finished(c) /\ c.first = TransportError(store))
            => /\ c.forced = 1
               /\ c.execs = 2
               /\ c.second # "none"
               /\ c.outcome = c.second

\* C1 amended: after a transport error on the first execution there is
\* exactly one forced acquire; if it succeeds the operation is executed exactly
\* once more and the call's outcome is that execution's; if it raises, its
\* connection error is the call's outcome and there is no second execution.
C1_RetryOnceAfterTransportError ==
    \A w \in Workers :
        LET c == call[w] IN
        /\ (Wrapped(c) /\ c.first = TransportError(store)) => c.forced = 1
        /\ (Wrapped(c) /\ Finished(c) /\ c.first = TransportError(store))
            => \/ /\ c.attempt = 2
                  /\ c.execs = 2
                  /\ c.second # "none"
                  /\ c.outcome = c.second
               \/ /\ c.attempt = 1
                  /\ c.ctx = "wrapper" /\ c.acqFailed
                  /\ c.execs = 1
                  /\ c.second = "none"
                  /\ c.outcome = ConnectError(store)

C1_Witness ==
    \E w \in Workers :
        LET c == call[w] IN
        /\ Finished(c) /\ c.first = TransportError(store)
        /\ c.forced = 1 /\ c.execs = 2 /\ c.outcome = "ok"

\* C2: a wrapped call never makes more than two executions nor more than one
\* forced acquire, takes a bounded number of steps, and a transport error on
\* the second execution ends the call with that error as its outcome.
C2_AtMostOneRetry ==
    \A w \in Workers :
        LET c == call[w] IN
        /\ c.execs <= 2
        /\ c.forced <= 1
        /\ c.steps <= 8
        /\ (c.second = TransportError(store))
              => (Finished(c) /\ c.outcome = TransportError(store))

C2_Witness ==
    \E w \in Workers :
        LET c == call[w] IN
        /\ Finished(c) /\ c.execs = 2 /\ c.forced = 1
        /\ c.second = TransportError(store)
        /\ c.outcome = TransportError(store)
        /\ ~reachable

\* C3 as stated: a wrapped call whose first execution succeeded or raised
\* anything but the transport error made one execution and no forced acquire,
\* constructed no handle, and its outcome is that of the first execution.
C3_NoRetryHandleUntouched ==
    \A w \in Workers :
        LET c == call[w] IN
        (Wrapped(c) /\ Finished(c) /\ c.first # TransportError(store))
            => /\ c.execs = 1
               /\ c.forced = 0
               /\ c.built = 0
               /\ c.outcome = c.first

\* C3 amended: such a call made one execution and no forced acquire, its
\* outcome is that of the first execution, and it constructed no handle when
\* one was cached at its start; with none cached, the only construction is the
\* one of the operation's own unforced acquire.
C3_NoRetryWithoutTransportError ==
    \A w \in Workers :
        LET c == call[w] IN
        (Wrapped(c) /\ Finished(c) /\ c.first # TransportError(store))
            => /\ c.execs = 1
               /\ c.forced = 0
               /\ c.second = "none"
               /\ c.outcome = c.first
               /\ c.cached0 # None => c.built = 0
               /\ c.built <= 1
               /\ c.built = 1 => (c.acqConn = None /\ ~c.acqForce)

C3_Witness ==
    \E w \in Workers :
        LET c == call[w] IN
        /\ Wrapped(c) /\ Finished(c) /\ c.first = QueryError
        /\ c.cached0 # None /\ c.execs = 1 /\ c.outcome = QueryError

\* C4: the cached handle is always the most recently constructed one; an
\* acquire that has returned constructed a handle exactly if none was cached
\* or force was set; without construction it returned the cached handle, with
\* construction it returned a handle newer than the one it found.
C4_AcquireConstructsWhenNeeded ==
    /\ connection = nextHandle - 1
    /\ \A w \in Workers :
        LET c == call[w] IN
        /\ c.pc = "connecting" => (c.acqConn = None \/ c.acqForce)
        /\ c.acqRet # None =>
              /\ c.acqBuilt <=> (c.acqConn = None \/ c.acqForce)
              /\ ~c.acqBuilt => c.acqRet = c.acqConn
              /\ c.acqBuilt => c.acqRet > c.acqConn
              /\ c.acqRet <= connection

C4_Witness ==
    \E w \in Workers :
        LET c == call[w] IN
        /\ c.ctx = "direct" /\ Finished(c) /\ c.acqForce /\ c.acqBuilt
        /\ c.acqConn = 1 /\ c.acqRet = 2 /\ connection = 2

\* C5: an acquire makes at most one construction attempt, and a failed
\* attempt ends the call with the driver's connection error, returning no
\* handle.
C5_ConnectFailureSurfaces ==
    \A w \in Workers :
        LET c == call[w] IN
        /\ c.acqTries <= 1
        /\ c.acqFailed =>
              /\ Finished(c)
              /\ c.outcome = ConnectError(store)
              /\ c.acqRet = None
              /\ ~c.acqBuilt

C5_Witness ==
    \E w \in Workers :
        LET c == call[w] IN
        c.ctx = "direct" /\ c.acqFailed /\ Finished(c)

(***************************************************************************)
(* Windowed rate limiter: properties                                       *)
(***************************************************************************)
CheckInProgress(i) ==
    \E w \in Workers : chk[w].id = i /\ chk[w].pc \in {"set", "expire", "incr"}

C7_EveryKeyHasExpiry ==
    \A i \in Identifiers :
        (counter[i] # None /\ ~CheckInProgress(i)) => ttl[i]

\* C8: a check during which a store command raised ends with that error: it
\* neither admits nor rejects; and a check that admitted or rejected had no
\* store command raise.
C8_StoreErrorPropagates ==
    \A w \in Workers :
        LET c == chk[w] IN
        /\ c.failed => (c.pc = "done" /\ c.result = "error")
        /\ c.result \in {"admit", "reject"} => ~c.failed
        /\ c.pc = "done" => c.result \in {"admit", "reject", "error"}

C8_Witness ==
    \E w \in Workers :
        LET c == chk[w] IN
        c.pc = "done" /\ c.failed /\ c.result = "error" /\ ~redisUp

(***************************************************************************)
(* Result grouping: properties                                             *)
(***************************************************************************)
RowIds(rows) == {rows[k].id : k \in 1 .. Len(rows)}

\* The non-null answer ids of the rows of parent q, in row order.
AnswersOf(rows, q) ==
    LET mine == SelectSeq(rows, LAMBDA r : r.id = q /\ r.answer_id # None)
    IN [k \in 1 .. Len(mine) |-> mine[k].answer_id]

\* C9: for the non-empty rows of the join, list_questions returns one group
\* per distinct question id, in ascending (first-seen) id order, and each
\* group's answers are the non-null answer ids of that question's rows, in row
\* order.
C9_OneGroupPerParent ==
    (lq.pc = "returned" /\ lq.rows # <<>>) =>
        /\ Len(lq.result) = Cardinality(RowIds(lq.rows))
        /\ [k \in 1 .. Len(lq.result) |-> lq.result[k].id]
              = Ascending(RowIds(lq.rows))
        /\ \A k \in 1 .. Len(lq.result) :
              lq.result[k].answers = AnswersOf(lq.rows, lq.result[k].id)

C9_Witness ==
    /\ lq.pc = "returned"
    /\ Len(lq.rows) = 3
    /\ Len(lq.result) = 2
    /\ Len(lq.result[1].answers) = 2
    /\ Len(lq.result[2].answers) = 1

\* C10: a question whose join row has a null answer id gets a group with no
\* answers, wherever its row stands, and no group holds a null answer.
C10_ChildlessParentHasNoAnswers ==
    lq.pc = "returned" =>
        /\ \A n \in 1 .. Len(lq.rows) :
              lq.rows[n].answer_id = None =>
                  \E k \in 1 .. Len(lq.result) :
                      /\ lq.result[k].id = lq.rows[n].id
                      /\ lq.result[k].answers = <<>>
        /\ \A k \in 1 .. Len(lq.result) :
              \A j \in 1 .. Len(lq.result[k].answers) :
                  lq.result[k].answers[j] # None

\* A childless question in first place and one in a later place.
C10_Witness ==
    /\ lq.pc = "returned"
    /\ Len(lq.rows) = 2
    /\ lq.rows[1].answer_id = None /\ lq.rows[2].answer_id = None
    /\ Len(lq.result) = 2
    /\ lq.result[1].answers = <<>> /\ lq.result[2].answers = <<>>

(***************************************************************************)
(* Paginated fetch: properties                                             *)
(***************************************************************************)
\* The stored questions a call with filter d is about.
MatchingParents(d) ==
    {q \in QuestionIds :
        questions[q] # "absent" /\ (d # NoDifficulty => questions[q] = d)}

\* The 1-based place of q in the id-ordered list of the parents matching d.
PositionOf(q, d) == Cardinality({p \in MatchingParents(d) : p <= q})

\* C11: list_questions returns exactly min(limit, max(0, M - offset)) parents,
\* M being the number of parents that match the filter, and each returned
\* parent carries all of its stored answers, however many it has.
C11_ExactParentCountCompleteAnswers ==
    lq.pc = "returned" =>
        LET M == Cardinality(MatchingParents(lq.difficulty))
            left == IF M > lq.offset THEN M - lq.offset ELSE 0
        IN /\ lq.raised = "none"
           /\ Len(lq.result) = IF lq.limit < left THEN lq.limit ELSE left
           /\ \A k \in 1 .. Len(lq.result) :
                 lq.result[k].answers =
                     Ascending({a \in AnswerIds : answers[a] = lq.result[k].id})

\* A page of one parent out of two, the returned one with two answers.
C11_Witness ==
    /\ lq.pc = "returned"
    /\ lq.limit = 1 /\ lq.offset = 0
    /\ Cardinality(MatchingParents(lq.difficulty)) = 2
    /\ Len(lq.result) = 1
    /\ Len(lq.result[1].answers) = 2

\* C12: the returned parents are those at places offset+1 .. offset+limit of
\* the id-ordered list of the parents matching the filter (of all parents when
\* no filter is given), in that order, and with a filter every returned
\* parent has the requested difficulty.
C12_FilterCountsMatchingParents ==
    lq.pc = "returned" =>
        /\ \A k \in 1 .. Len(lq.result) :
              /\ lq.result[k].id \in MatchingParents(lq.difficulty)
              /\ PositionOf(lq.result[k].id, lq.difficulty) = lq.offset + k
              /\ lq.difficulty # NoDifficulty =>
                     lq.result[k].difficulty = lq.difficulty
        /\ \A q \in MatchingParents(lq.difficulty) :
              PositionOf(q, lq.difficulty) \in
                      (lq.offset + 1) .. (lq.offset + lq.limit) =>
                  \E k \in 1 .. Len(lq.result) : lq.result[k].id = q

\* A filtered page whose only parent stands behind a parent that does not
\* match.
C12_Witness ==
    /\ lq.pc = "returned"
    /\ lq.difficulty = "hard" /\ lq.limit = 1 /\ lq.offset = 0
    /\ questions[1] = "easy" /\ questions[2] = "hard"
    /\ Len(lq.result) = 1
    /\ lq.result[1].id = 2

\* C13: an offset at or beyond the number of matching parents, an empty store
\* included, gives the empty sequence and no error; so does grouping no rows.
C13_EmptyResultIsAValue ==
    lq.pc = "returned" =>
        /\ lq.offset >= Cardinality(MatchingParents(lq.difficulty)) =>
               (lq.result = <<>> /\ lq.raised = "none")
        /\ lq.rows = <<>> => (lq.result = <<>> /\ lq.raised = "none")

\* A store with a matching parent, read from an offset behind it.
C13_Witness ==
    /\ lq.pc = "returned"
    /\ lq.limit >= 1
    /\ Cardinality(MatchingParents(lq.difficulty)) >= 1
    /\ lq.offset >= Cardinality(MatchingParents(lq.difficulty))
    /\ lq.rows = <<>>
    /\ lq.result = <<>>

(***************************************************************************)
(* Writes: properties                                                      *)
(***************************************************************************)
\* The question rows no open transaction holds.
CommittedQuestions ==
    {q \in DOMAIN questions :
        questions[q] # "absent" /\ \A hh \in Handles : q \notin txn[hh].qs}

\* The stored answers of question q.
StoredAnswers(q) == {a \in DOMAIN answers : answers[a] = q}

\* The texts stored when the execution that returned began: those of the
\* committed rows it did not insert.
TextsBefore(c) ==
    {qtext[q] : q \in CommittedQuestions \
                      {c.inserted_ids[k] : k \in 1 .. Len(c.inserted_ids)}}

\* Item i of the execution met a stored text: one stored when the execution
\* began, or the text of an earlier item of the batch.
AlreadyExists(c, i) ==
    \/ c.items[i].text \in TextsBefore(c)
    \/ \E j \in 1 .. (i - 1) : c.items[j].text = c.items[i].text

\* A step leaves every committed question as it is: its row, its text and
\* its answers.
CommittedRowsStay ==
    \A q \in CommittedQuestions :
        /\ questions'[q] = questions[q]
        /\ qtext'[q] = qtext[q]
        /\ {a \in DOMAIN answers : answers'[a] = q} = StoredAnswers(q)

\* What create_questions_bulk has done when it returns.
BulkOutcome ==
    LET c == wr["w1"] IN
    c.kind = "bulk" =>
        /\ c.error # "UniqueViolation"
        /\ c.pc = "returned" =>
              LET dup == {i \in 1 .. Len(c.items) : AlreadyExists(c, i)}
                  new == Ascending((1 .. Len(c.items)) \ dup)
              IN /\ c.skipped_rows = Ascending(dup)
                 /\ Len(c.inserted_ids) = Len(new)
                 /\ \A k \in 1 .. Len(new) :
                       /\ c.inserted_ids[k] \in CommittedQuestions
                       /\ qtext[c.inserted_ids[k]] = c.items[new[k]].text

C15_ItemIsAtomic ==
    LET c == wr["w1"] IN
    /\ (c.pc = "raised" /\ c.error = "DataError") =>
          /\ questions[c.inserted_id] = "absent"
          /\ qtext[c.inserted_id] = NoText
          /\ StoredAnswers(c.inserted_id) = {}
          /\ \A k \in 1 .. Len(c.committed) :
                c.committed[k].id \in CommittedQuestions
    /\ c.pc # "idle" =>
          \A q \in CommittedQuestions :
              \/ /\ q < c.serial0
                 /\ StoredAnswers(q) = {q}
              \/ \E k \in 1 .. Len(c.committed) :
                    /\ c.committed[k].id = q
                    /\ Cardinality(StoredAnswers(q)) =
                           Len(c.items[c.committed[k].index].answers)
                    /\ \A a \in StoredAnswers(q) :
                          \A hh \in Handles : a \notin txn[hh].as

\* The second item of a batch fails on its second answer after the first
\* item was committed with both of its answers.
C15_Witness ==
    LET c == wr["w1"] IN
    /\ c.kind = "bulk" /\ c.pc = "raised" /\ c.error = "DataError"
    /\ c.index = 2
    /\ Len(c.committed) = 1
    /\ Cardinality(StoredAnswers(c.committed[1].id)) = 2
    /\ c.inserted_id # None

\* C16: whenever create_questions_bulk has committed an item and has ended,
\* it has returned, insertedIds are the ids of the items the call committed,
\* in item order, skippedIndices are the ascending positions of the others,
\* and the two lengths add up to the number of items.
C16_BulkReportsWhatItCommitted ==
    LET c == wr["w1"] IN
    (c.kind = "bulk" /\ c.pc \in {"returned", "raised"} /\ c.committed # <<>>) =>
        /\ c.pc = "returned"
        /\ c.inserted_ids = [k \in 1 .. Len(c.committed) |-> c.committed[k].id]
        /\ c.skipped_rows =
               Ascending((1 .. Len(c.items)) \
                         {c.committed[k].index : k \in 1 .. Len(c.committed)})
        /\ Len(c.inserted_ids) + Len(c.skipped_rows) = Len(c.items)

\* The answer rows no open transaction holds.
CommittedAnswers ==
    {a \in DOMAIN answers :
        answers[a] # 0 /\ \A hh \in Handles : a \notin txn[hh].as}

\* C17: in every state reached by create_question and create_questions_bulk
\* calls, interleaved and re-executed by the wrapper as they may be, no two
\* stored questions have the same text.
C17_QuestionTextsAreUnique ==
    \A p, q \in DOMAIN qtext :
        (p # q /\ qtext[p] # NoText) => qtext[p] # qtext[q]

\* Two workers wrote the same text at the same time: the one that was
\* re-executed after a lost connection stored it, the other was refused.
C17_Witness ==
    \E w, v \in Workers :
        /\ wr[w].pc = "raised" /\ wr[w].outcome = "UniqueViolation"
        /\ wr[v].pc = "returned" /\ wr[v].attempt = 2
        /\ wr[v].items[1].text = wr[w].items[1].text
        /\ wr[v].inserted_id \in CommittedQuestions

\* C18: every stored answer refers to a stored question, and every committed
\* answer to a committed one, whatever calls failed or were rolled back.
C18_AnswersHaveTheirQuestion ==
    /\ \A a \in DOMAIN answers :
          answers[a] # 0 => questions[answers[a]] # "absent"
    /\ \A a \in CommittedAnswers : answers[a] \in CommittedQuestions

\* A worker's question was rolled back by the other worker's failure on the
\* shared connection, and the insert of its answer was refused.
C18_Witness ==
    \E w \in Workers :
        /\ wr[w].pc = "raised"
        /\ wr[w].outcome = "ForeignKeyViolation"
        /\ questions[wr[w].inserted_id] = "absent"

(***************************************************************************)
(* GET /questions: properties                                              *)
(***************************************************************************)
\* The (offset, limit, difficulty) triple of a request.
Triple(r) == <<r.offset, r.limit, r.difficulty>>

\* The cache entries a request has read or written.
Touched(r) == r.gets \cup r.sets

\* The request has been answered with the questions.
Served(r) == r.pc = "done" /\ r.status = "OK"

\* The request found its key in the cache.
ServedFromCache(r) == Served(r) /\ r.found # NoEntry

\* The request did not find its key in the cache.
ServedFromStore(r) == Served(r) /\ r.found = NoEntry

\* An entry has no expiry only between the SET and the EXPIRE of a request
\* that is writing it, or when such a request ended between the two.
WrittenWithExpiry(k) ==
    cache[k] # NoEntry =>
        \/ cacheTtl[k] = CACHE_EXPIRY
        \/ \E w \in Workers :
              /\ k \in req[w].sets
              /\ \/ req[w].pc = "cache_expire"
                 \/ req[w].pc = "done" /\ req[w].status = "ServerError"

\* C19: on GET /questions with the relational store, a request that finds
\* its key "{offset}-{limit}[-{difficulty}]" in the cache returns what the
\* cached text decodes to, which is what list_questions gives for its triple,
\* and neither calls list_questions nor writes the cache; a request that
\* does not find it calls list_questions exactly once, returns its result and
\* has stored the encoded result under that key with an expiry of 60 when it
\* returns (unless the entry written meanwhile by another request of the same
\* key has already expired); each request touches the entry of its own key
\* only, and two requests touch the same entry only if their triples are equal.
C19_CacheAside ==
    /\ \A w \in Workers :
         LET r == req[w] IN
         /\ ServedFromCache(r) =>
               /\ Dumps(r.questions) = r.found
               /\ r.questions = Listed(r.limit, r.offset, r.difficulty)
               /\ r.lists = 0
               /\ r.sets = {}
         /\ ServedFromStore(r) =>
               /\ r.lists = 1
               /\ r.questions = Listed(r.limit, r.offset, r.difficulty)
               /\ r.sets = {r.cache_key}
               /\ \/ r.stored = <<Dumps(r.questions), CACHE_EXPIRY>>
                  \/ r.stored = <<NoEntry, 0>>
         /\ Touched(r) \subseteq {r.cache_key}
    /\ \A w, v \in Workers :
         Touched(req[w]) \cap Touched(req[v]) # {} => Triple(req[w]) = Triple(req[v])
    /\ \A k \in CacheKeys : WrittenWithExpiry(k)

\* One request has populated the entry of its key and returned, and a second
\* request of the same triple has been served the questions from the entry.
C19_Witness ==
    /\ ServedFromStore(req["w1"])
    /\ req["w1"].stored = <<Dumps(req["w1"].questions), CACHE_EXPIRY>>
    /\ ServedFromCache(req["w2"])
    /\ Triple(req["w1"]) = Triple(req["w2"])
    /\ Len(req["w2"].questions) = 2
    /\ req["w2"].lists = 0

\* The request has read or written the cache or queried the relational store.
ReachedCacheOrStore(r) ==
    \/ r.pc \in {"cache_get", "list", "cache_set", "cache_expire"}
    \/ r.gets # {}
    \/ r.sets # {}
    \/ r.lists > 0

\* A rejected request is answered 429 and has touched neither cache nor store.
RejectedTouchesNothing(r) ==
    r.limiter = "reject" =>
        /\ r.pc = "done"
        /\ r.status = "TooManyRequests"
        /\ r.gets = {}
        /\ r.sets = {}
        /\ r.lists = 0

\* C20: on GET /questions the rate limiter decides first: a request the limiter
\* rejects is answered 429 and performs no cache read, no cache write and no
\* query of the relational store, and a request reaches the cache or the
\* store only after check returned true for its identifier.
C20_LimiterDecidesFirst ==
    \A w \in Workers :
        /\ RejectedTouchesNothing(req[w])
        /\ ReachedCacheOrStore(req[w]) => req[w].limiter = "admit"

\* The same for the requests that carry an x-forwarded-for header.
LimiterDecidesFirstWithHeader ==
    \A w \in Workers :
        /\ RejectedTouchesNothing(req[w])
        /\ req[w].client_ip # NoHeader /\ ReachedCacheOrStore(req[w])
              => req[w].limiter = "admit"

\* A client that has consumed its quota is rejected with its header and
\* served without it.
QuotaBypassedWithoutHeader ==
    /\ req["w1"].limiter = "reject"
    /\ req["w1"].status = "TooManyRequests"
    /\ req["w2"].client_ip = NoHeader
    /\ Served(req["w2"])
    /\ counter["a"] >= QUOTA

(***************************************************************************)
(* GET /_health: properties                                                *)
(***************************************************************************)
\* C21: the health endpoint fails closed: it answers "Up" only if the request
\* was not rate-limited and the four liveness checks (relational store,
\* document store, queue broker, counter store) all ran, in that order,
\* without raising, each on a dependency that answered when it was checked; a
\* rate-limited request is answered 429, and a request during which the
\* limiter or any one check raised is answered with an error, never "Up".
C21_HealthFailsClosed ==
    \A w \in Workers :
        LET r == hreq[w] IN
        /\ r.status = "Up" =>
              /\ r.limiter \in {"admit", "skipped"}
              /\ Len(r.checks) = Len(HealthChecks)
              /\ \A k \in 1 .. Len(r.checks) : ~CheckRaises(r.checks[k])
              /\ r.sawDown = {}
        /\ r.limiter = "reject" =>
              r.pc = "done" /\ r.status = "TooManyRequests" /\ r.checks = <<>>
        /\ r.limiter = "error" =>
              r.pc = "done" /\ r.status = "ServerError" /\ r.checks = <<>>
        /\ (\E k \in 1 .. Len(r.checks) : CheckRaises(r.checks[k])) =>
              /\ r.pc = "done"
              /\ r.status = "ServerError"
              /\ CheckRaises(r.checks[Len(r.checks)])
              /\ \A k \in 1 .. Len(r.checks) - 1 : ~CheckRaises(r.checks[k])

\* The first three checks passed, the queue being absent at the broker, and
\* the counter store did not answer: the request ended with an error.
C21_Witness ==
    LET r == hreq["w1"] IN
    /\ r.limiter = "admit"
    /\ Len(r.checks) = 4
    /\ r.checks[3] = "ChannelClosedByBroker"
    /\ CheckRaises(r.checks[4])
    /\ r.status = "ServerError"

(***************************************************************************)
(* POST /questions and POST /questions/bulk: properties                    *)
(***************************************************************************)
\* The request has been answered.
Answered(r) == r.pc = "done"

\* No write has been started for the worker and no task published.
NothingWritten(w) ==
    /\ wr[w] = IdleWrite
    /\ \A hh \in Handles : txn[hh] = NoTxn
    /\ queue = <<>>

CommittedIds(w) == {wr[w].committed[k].id : k \in 1 .. Len(wr[w].committed)}

\* How many tasks the request has published for the id.
TasksFor(r, id) == Cardinality({k \in 1 .. Len(r.published) : r.published[k] = id})

\* C23: for every POST /questions/bulk request, when it has been answered
\* exactly one enrichment task has been enqueued for each id the request
\* committed to the relational store and reported in inserted_ids, and none
\* for any other id: no committed id is left without a task and no id has two.
C23_OneTaskPerInsertedId ==
    \A w \in Workers :
        LET r == preq[w] IN
        r.path = "bulk" /\ Answered(r) =>
            \A id \in QuestionSerials :
                TasksFor(r, id) = IF id \in CommittedIds(w) THEN 1 ELSE 0

\* The request was answered 200 and an id it committed has two tasks.
BulkTaskPublishedTwice ==
    LET r == preq["w1"] IN
    /\ r.path = "bulk"
    /\ r.status = "200"
    /\ \E id \in CommittedIds("w1") : TasksFor(r, id) = 2

\* The request failed after it committed an id, which has no task.
BulkCommittedWithoutTask ==
    LET r == preq["w1"] IN
    /\ r.path = "bulk"
    /\ r.status = "500"
    /\ \E id \in CommittedIds("w1") : TasksFor(r, id) = 0

\* The request was answered 200 and every id it committed has one task.
BulkServed ==
    LET r == preq["w1"] IN
    /\ r.path = "bulk"
    /\ r.status = "200"
    /\ Len(r.inserted_ids) = 2
    /\ \A id \in QuestionSerials :
           TasksFor(r, id) = IF id \in CommittedIds("w1") THEN 1 ELSE 0

(***************************************************************************)
(* The /ws notification endpoint: properties                               *)
(***************************************************************************)
\* Once the loop has ended it polls and sends no more.
EndedStaysEnded ==
    ws.pc = "ended" =>
        /\ ws'.pc = "ended"
        /\ ws'.sent = ws.sent
        /\ ws'.recent_questions = ws.recent_questions
        /\ ws'.recent_question_id = ws.recent_question_id

\* C24: once the peer of the notification endpoint has disconnected, the
\* polling loop eventually terminates, given that every ready step of the
\* loop is eventually run; and once the loop has detected the disconnect and
\* ended, it issues no further poll and no further send.
C24_LoopTerminatesAfterDisconnect ==
    /\ (ws.peer = "gone") ~> (ws.pc = "ended")
    /\ [][EndedStaysEnded]_vars

\* The loop does end when a send to the gone peer raises or the framework
\* has recorded the disconnect.
LoopEndedAfterDisconnect ==
    /\ ws.peer = "gone"
    /\ ws.pc = "ended"
    /\ ws.error = "none"

\* C25: every notification is sent in a poll cycle whose count of questions
\* with an id above the highest known id was at least one, and before every
\* notification but the first the loop has slept a full suspension of 5
\* time-units since the notification before it.
C25_NotificationRate ==
    \A k \in 1 .. Len(ws.sent) :
        /\ ws.sent[k].count > 0
        /\ ws.sent[k].newest > ws.sent[k].known
        /\ k > 1 => ws.sent[k].slept >= SLEEP

\* Two notifications have been sent, the second after a full suspension.
C25_Witness ==
    /\ Len(ws.sent) = 2
    /\ ws.sent[2].slept = SLEEP
    /\ ws.sent[2].count > 0

(***************************************************************************)
(* Windowed rate limiter: window length and concurrency                    *)
(***************************************************************************)
\* A check that found the key of i absent is between its SET and its EXPIRE.
FirstRequestInProgress(i) ==
    \E w \in Workers : chk[w].id = i /\ chk[w].pc \in {"set", "expire"}

\* The expiry of a key changes only in a step of a check that found the key
\* absent, or when the key expires; a check that increments or rejects leaves
\* it as it is.
ExpirySetByFirstRequestOnly ==
    \A i \in Identifiers :
        ttl'[i] # ttl[i] =>
            \/ \E w \in Workers :
                  /\ chk[w].id = i
                  /\ chk[w].pc \in {"set", "expire"}
                  /\ chk'[w] # chk[w]
            \/ counter[i] # None /\ counter'[i] = None

\* C26: the expiry of an identifier's counter key is set only by the check
\* that finds the key absent; a later check that admits by incrementing or
\* that rejects does not change it; so every window, from its first request
\* on, has the expiry that first request set and ends when it passes, however
\* many requests follow.
C26_FixedWindowLength ==
    /\ [][ExpirySetByFirstRequestOnly]_vars
    /\ [](\A i \in Identifiers :
            (counter[i] # None /\ ~FirstRequestInProgress(i)) => ttl[i])

\* The first part alone.
ExpiryFrameHolds == [][ExpirySetByFirstRequestOnly]_vars

\* An admitted check whose write came after another worker's write: what it
\* left in the store is not one more than what it read.
Overlapped(c) ==
    /\ c.pc = "done"
    /\ c.result = "admit"
    /\ ~c.lapsed
    /\ c.after # (IF c.read = None THEN FirstValue ELSE c.read + 1)

\* C27: check reads the counter in one store command and writes it in
\* another, so with several workers checking one identifier each admission
\* is decided on the value that worker read (absent or below QUOTA) and each
\* rejection on a value at QUOTA or above, while the stored counter can pass
\* QUOTA, by at most one per further worker; QUOTA admissions per window is
\* therefore no invariant (the witness admits more than QUOTA before the key
\* first expires, a concurrent first request having reset the counter to 1).
C27_RacyCheck ==
    /\ \A i \in Identifiers :
          counter[i] # None => counter[i] <= QUOTA + (Cardinality(Workers) - 1)
    /\ \A w \in Workers :
          LET c == chk[w] IN
          /\ c.pc = "incr" => (c.read # None /\ c.read < QUOTA)
          /\ c.pc \in {"set", "expire"} => c.read = None
          /\ (c.pc = "done" /\ c.result = "admit") =>
                (c.read = None \/ c.read < QUOTA)
          /\ (c.pc = "done" /\ c.result = "reject") => c.read >= QUOTA

C27_Witness ==
    /\ windows["a"] = 0
    /\ winAdmits["a"] > QUOTA
    /\ counter["a"] # None
    /\ counter["a"] < winAdmits["a"]
    /\ \E w \in Workers : Overlapped(chk[w])

\* The stored counter itself above QUOTA.
CounterAboveQuota ==
    /\ windows["a"] = 0
    /\ counter["a"] # None
    /\ counter["a"] > QUOTA

\* A first request's SET lands on a counter another worker has already
\* raised, and puts it back to 1 with no expiry.
FirstRequestResetsCounter ==
    \E w \in Workers :
        /\ chk[w].pc = "expire"
        /\ chk[w].id = "a"
        /\ counter["a"] = FirstValue
        /\ ~ttl["a"]
        /\ winAdmits["a"] >= 2
        /\ windows["a"] = 0

(***************************************************************************)
(* Result grouping on any row sequence: properties                         *)
(***************************************************************************)
\* Row n is the first of a maximal run of rows with one question id.
IsRunStart(rows, n) == n = 1 \/ rows[n].id # rows[n - 1].id

RunStarts(rows) == Ascending({n \in 1 .. Len(rows) : IsRunStart(rows, n)})

\* The last row of the run that starts at row s.
RunEnd(rows, s) ==
    CHOOSE e \in s .. Len(rows) :
        /\ \A m \in s .. e : rows[m].id = rows[s].id
        /\ e = Len(rows) \/ rows[e + 1].id # rows[s].id

\* The answer ids of the rows of the run that starts at row s, in row order.
RunAnswerIds(rows, s) ==
    [m \in 1 .. (RunEnd(rows, s) - s + 1) |-> rows[s + m - 1].answer_id]

WithoutNulls(ids) == SelectSeq(ids, LAMBDA a : a # None)

RECURSIVE AnswersHeld(_)
AnswersHeld(groups) ==
    IF groups = <<>> THEN 0
    ELSE Len(Head(groups).answers) + AnswersHeld(Tail(groups))

NullRowOpeningAGroupAddsNothing ==
    lq.pc = "returned" =>
        \A k \in 1 .. Len(lq.result) :
            LET s == RunStarts(lq.rows)[k] IN
            lq.rows[s].answer_id = None =>
                Len(lq.result[k].answers) = RunEnd(lq.rows, s) - s

\* C29: the grouping compares each row with the last-seen question id only:
\* whatever the order of the rows it raises nothing and returns one group per
\* maximal run of equal question ids, in run order, a question whose rows are
\* apart getting one group for each run; the non-null answer ids of a group
\* are those of its run's rows, in row order.
C29_OneGroupPerRun ==
    lq.pc = "returned" =>
        LET starts == RunStarts(lq.rows) IN
        /\ lq.raised = "none"
        /\ Len(lq.result) = Len(starts)
        /\ \A k \in 1 .. Len(starts) :
              /\ lq.result[k].id = lq.rows[starts[k]].id
              /\ WithoutNulls(lq.result[k].answers) =
                    WithoutNulls(RunAnswerIds(lq.rows, starts[k]))
              /\ Len(lq.result[k].answers) <= RunEnd(lq.rows, starts[k]) - starts[k] + 1

\* One question's rows lie apart: it gets two groups, each with its own rows.
C29_Witness ==
    /\ lq.pc = "returned"
    /\ Len(lq.rows) = 3
    /\ lq.rows[1].id = lq.rows[3].id
    /\ lq.rows[1].id # lq.rows[2].id
    /\ lq.rows[1].answer_id = 2 /\ lq.rows[3].answer_id = 1
    /\ Len(lq.result) = 3
    /\ lq.result[1].id = lq.result[3].id
    /\ lq.result[1].answers = <<2>>
    /\ lq.result[3].answers = <<1>>

(***************************************************************************)
(* Pagination stability: properties                                        *)
(***************************************************************************)
\* The ids of the parents of a result, in result order.
IdsOf(result) == [k \in 1 .. Len(result) |-> result[k].id]

\* The ids of the pages (offset o, limit n), (offset o + n, limit n), ... put
\* one after the other, up to the first empty page.
RECURSIVE PagesFrom(_, _)
PagesFrom(n, o) ==
    LET page == Listed(n, o, NoDifficulty) IN
    IF page = <<>> THEN <<>> ELSE IdsOf(page) \o PagesFrom(n, o + n)

\* For the content of the store as it is, the pages of n parents each are
\* pairwise disjoint and together give every parent once, in id order.
PagesPartition ==
    \A n \in Limits \ {0} :
        LET all == PagesFrom(n, 0) IN
        /\ all = Ascending({q \in DOMAIN questions : questions[q] # "absent"})
        /\ \A i, j \in 0 .. Len(all) :
              i # j =>
                 \A a \in 1 .. Len(Listed(n, i * n, NoDifficulty)) :
                    \A b \in 1 .. Len(Listed(n, j * n, NoDifficulty)) :
                        Listed(n, i * n, NoDifficulty)[a].id #
                            Listed(n, j * n, NoDifficulty)[b].id

\* The caller holds an unfiltered page with its limit of parents.
HoldsFullPage ==
    /\ lq.pc = "returned"
    /\ lq.raised = "none"
    /\ lq.difficulty = NoDifficulty
    /\ Len(lq.result) = lq.limit

\* A question inserted since the page was read is stored.
InsertedSince ==
    \E w \in Workers :
        /\ wr[w].pc = "returned"
        /\ wr[w].committed # <<>>
        /\ questions[wr[w].committed[1].id] # "absent"

\* C30: with parents ordered by their serial id, a page of list_questions
\* that held its limit of parents reads the same after any later inserts of
\* new questions, committed, rolled back or under way, and for any content
\* of the store the pages (limit n, offset 0), (limit n, offset n), ... are
\* pairwise disjoint and their concatenation is the id-ordered list of all
\* parents.
C30_PaginationStable ==
    /\ HoldsFullPage => Listed(lq.limit, lq.offset, NoDifficulty) = lq.result
    /\ PagesPartition

\* A page of one parent is held, a question has been inserted since, and
\* the pages of one now run to a second page.
C30_Witness ==
    /\ HoldsFullPage
    /\ lq.limit = 1 /\ lq.offset = 0
    /\ InsertedSince
    /\ Len(Listed(1, 1, NoDifficulty)) = 1

(***************************************************************************)
(* Cache staleness: properties                                             *)
(***************************************************************************)
\* A write to the questions leaves every cache entry and expiry as it is.
WriteKeepsCache ==
    questions' # questions => (cache' = cache /\ cacheTtl' = cacheTtl)

\* A request answered from the cache gets the stored value, and the hit
\* changes neither the entry nor its expiry.
HitKeepsEntry ==
    \A w \in Workers :
        (req[w].pc = "cache_get" /\ req'[w].pc = "done" /\ req'[w].found # NoEntry) =>
            /\ req'[w].questions = Loads(cache[req[w].cache_key])
            /\ cache' = cache
            /\ cacheTtl' = cacheTtl

\* An expiry is set to the full window by the request that populates the
\* entry and only comes nearer afterwards.
ExpiryOnlyRunsDown ==
    \A k \in CacheKeys :
        cacheTtl'[k] > cacheTtl[k] =>
            /\ cacheTtl'[k] = CACHE_EXPIRY
            /\ \E w \in Workers :
                  /\ req[w].pc = "cache_expire"
                  /\ req[w].cache_key = k
                  /\ req'[w].pc = "done"

\* An entry that is not just being populated has a running expiry of at
\* most the window: it is served for no longer than that and then expires.
EntryExpires(k) ==
    cache[k] # NoEntry =>
        \/ cacheTtl[k] \in 1 .. CACHE_EXPIRY
        \/ \E w \in Workers : req[w].pc = "cache_expire" /\ req[w].cache_key = k

\* C31: no write to the questions removes or overwrites a cache entry of
\* GET /questions; a read within the expiry window returns the value stored
\* at population; hits do not extend the expiry; every entry has an expiry
\* of at most CACHE_EXPIRY running from its population, so no value older
\* than that is served and every entry expires.
C31_StalenessWindow ==
    /\ [][WriteKeepsCache /\ HitKeepsEntry /\ ExpiryOnlyRunsDown]_vars
    /\ [](\A k \in CacheKeys : EntryExpires(k))

\* The parts of C31 that do not depend on the expiry being set.
StalenessFrameHolds == [][WriteKeepsCache /\ HitKeepsEntry /\ ExpiryOnlyRunsDown]_vars

\* A request is answered from the cache with a page the store no longer
\* gives.
StaleServed ==
    \E w \in Workers :
        /\ ServedFromCache(req[w])
        /\ req[w].questions # Listed(req[w].limit, req[w].offset, req[w].difficulty)

\* An entry without expiry that nobody is populating: time never removes it.
EntryWithoutExpiry ==
    \E k \in CacheKeys :
        /\ cache[k] # NoEntry
        /\ cacheTtl[k] = 0
        /\ \A w \in Workers : req[w].pc = "done"

(***************************************************************************)
(* The /ws notification endpoint: checks, completeness                     *)
(***************************************************************************)
\* The handler comes to its poll only from the connection-state check.
PollFollowsCheck ==
    (ws'.pc = "poll" /\ ws.pc # "poll") => ws.pc = "top"

\* The handler comes to its send only from the connection-state check.
SendFollowsCheck ==
    (ws'.pc = "send" /\ ws.pc # "send") => ws.pc = "top"

\* C32: the loop checks the peer's connection state before each iteration
\* and before each send: the step of the handler that directly precedes a
\* poll of the store, and the one that directly precedes a send_text, is
\* the connection-state check.
C32_CheckBeforePollAndSend == [][PollFollowsCheck /\ SendFollowsCheck]_vars

\* The half of C32 about the poll.
CheckBeforePollHolds == [][PollFollowsCheck]_vars

\* The handler is about to send although client_state has changed since the
\* check of this iteration.
SendsAfterRecordedDisconnect ==
    /\ ws.pc = "send"
    /\ ws.client_state = "DISCONNECTED"

(***************************************************************************)
(* Resilient session: concurrent replacement, failed reconnect             *)
(***************************************************************************)
\* The shared variable and every handle a worker was handed hold a handle
\* whose construction has finished, or none.
HandlesFullyBuilt ==
    /\ connection \in {None} \cup (1 .. (nextHandle - 1))
    /\ \A w \in Workers : call[w].h \in {None} \cup (1 .. (nextHandle - 1))

\* A worker executes its operation on the handle the shared variable holds.
UsesCurrentHandle ==
    \A w \in Workers :
        (call[w].pc = "run" /\ call'[w] # call[w]) => call[w].h = connection

\* C33: with several workers acquiring (some forcing a new handle) and using
\* the handle, no worker gets a partially constructed handle, and no worker
\* executes its operation on a handle that another worker replaced between
\* that worker's acquire and its use.
C33_AcquireThenUseAtomic ==
    /\ []HandlesFullyBuilt
    /\ [][UsesCurrentHandle]_vars

\* A worker is about to execute on a handle that was replaced while it is
\* still open.
RunsOnReplacedHandle ==
    \E w \in Workers :
        /\ call[w].pc = "run"
        /\ call[w].h # connection
        /\ call[w].h \notin stale

(***************************************************************************)
(* POST /questions: order of the writes                                    *)
(***************************************************************************)
\* The tasks in the queue.
Queued == {queue[k] : k \in 1 .. Len(queue)}

\* create_question did not give the request an id.
RelationalFailed(r) == Answered(r) /\ r.token = ADMIN_PASSWORD /\ r.question_id = None

\* create_question gave an id and the document-store insert raised.
DocumentFailed(r) ==
    /\ Answered(r)
    /\ r.question_id # None
    /\ ~r.mongo_done

\* C34: POST /questions writes the relational store first, the document
\* store second and enqueues the task third: a document is written only for
\* a question that has its relational id, and a task is enqueued only after
\* the document was written; when the relational insert fails nothing is
\* written to the document store and nothing is enqueued; when the document
\* insert fails after the relational insert, the question stays in the
\* relational store, no task is enqueued and the request fails.
C34_DualStoreWriteOrder ==
    \A w \in Workers :
        LET r == preq[w] IN
        r.path = "single" =>
           /\ r.mongo_done => r.question_id # None
           /\ r.pc = "mongo" => (r.question_id # None /\ r.published = <<>>)
           /\ r.published # <<>> => r.mongo_done
           /\ RelationalFailed(r) =>
                 /\ ~r.mongo_done
                 /\ r.published = <<>>
                 /\ queue = <<>>
                 /\ r.status \in {"400", "500"}
           /\ DocumentFailed(r) =>
                 /\ questions[r.question_id] # "absent"
                 /\ qtext[r.question_id] = r.items[1].text
                 /\ r.published = <<>>
                 /\ r.question_id \notin Queued
                 /\ r.status = "500"
                 /\ r.body = <<>>

\* The document store refused the question that the relational store holds.
C34_Witness ==
    LET r == preq["w1"] IN
    /\ r.path = "single"
    /\ DocumentFailed(r)
    /\ r.error = "DuplicateKeyError"
    /\ questions[r.question_id] # "absent"
    /\ queue = <<>>

(***************************************************************************)
(* Writes: two workers on the shared connection                            *)
(***************************************************************************)
\* The item of worker w's call is stored whole: its question is committed
\* and has as many answers as the item.
StoredWhole(w) ==
    /\ wr[w].inserted_id \in CommittedQuestions
    /\ Cardinality(StoredAnswers(wr[w].inserted_id)) =
           Len(wr[w].items[wr[w].index].answers)

\* C35: with two workers writing through the one cached connection, a call
\* that has returned an id has its question and all its answers committed,
\* and a call that has raised after inserting its question has left no
\* question row behind.
C35_ItemAtomicUnderConcurrentWriters ==
    \A w \in Workers :
        /\ (wr[w].pc = "returned" /\ wr[w].inserted_id # None) => StoredWhole(w)
        /\ (wr[w].pc = "raised" /\ wr[w].inserted_id # None) =>
               questions[wr[w].inserted_id] = "absent"

\* A call has returned the id of a question that another worker's rollback
\* removed: the id is reported as inserted and is not stored.
ReturnedIdNotStored ==
    \E w \in Workers :
        /\ wr[w].pc = "returned"
        /\ wr[w].inserted_id # None
        /\ questions[wr[w].inserted_id] = "absent"

\* A call has raised on an answer after another worker's commit stored its
\* question: the question stays committed without its answers.
HalfItemCommitted ==
    \E w \in Workers :
        /\ wr[w].pc = "raised"
        /\ wr[w].error = "DataError"
        /\ wr[w].inserted_id \in CommittedQuestions
        /\ StoredAnswers(wr[w].inserted_id) = {}

(***************************************************************************)
(* Writes: the batch the wrapper executes again                            *)
(***************************************************************************)
\* The values of a sequence.
Range(s) == {s[k] : k \in 1 .. Len(s)}

\* C36: when create_questions_bulk has returned from its second execution,
\* the id of every item the call committed, in either execution, is in
\* inserted_ids and the position of no such item is in skipped_rows.
C36_RetriedBatchReportsCommitted ==
    LET c == wr["w1"] IN
    (c.kind = "bulk" /\ c.pc = "returned" /\ c.attempt = 2) =>
        \A k \in 1 .. Len(c.committed) :
            /\ c.committed[k].id \in Range(c.inserted_ids)
            /\ c.committed[k].index \notin Range(c.skipped_rows)

\* The second execution has returned; the first had committed item 1, whose
\* row is still stored, and the second reports position 1 as skipped.
CommittedItemReportedSkipped ==
    LET c == wr["w1"] IN
    /\ c.kind = "bulk" /\ c.pc = "returned" /\ c.attempt = 2
    /\ c.committed # <<>>
    /\ c.committed[1].index = 1
    /\ c.committed[1].id \in CommittedQuestions
    /\ c.committed[1].id \notin Range(c.inserted_ids)
    /\ 1 \in Range(c.skipped_rows)

(***************************************************************************)
(* Resilient session: the forced acquire that fails                        *)
(***************************************************************************)
\* The forced acquire the wrapper made after a transport error has raised.
ReconnectFailed(c) == c.ctx = "wrapper" /\ c.acqFailed

\* The call has ended with the construction error after one execution.
EndedWithConnectError(c) ==
    /\ Finished(c)
    /\ c.outcome = ConnectError(store)
    /\ c.first = TransportError(store)
    /\ c.execs = 1 /\ c.attempt = 1
    /\ c.second = "none"
    /\ ~c.acqBuilt /\ c.acqRet = None

\* The step in which worker w's forced acquire constructs no handle.
ReconnectFails(w) ==
    /\ call[w].pc = "connecting" /\ call[w].ctx = "wrapper"
    /\ call'[w] # call[w]
    /\ nextHandle' = nextHandle

\* The step ends the call and leaves the cached handle as it was, a handle
\* and not None.
KeepsCachedHandle ==
    \A w \in Workers :
        ReconnectFails(w) =>
            /\ ReconnectFailed(call'[w])
            /\ EndedWithConnectError(call'[w])
            /\ connection' = connection
            /\ connection # None

\* A call whose forced acquire has raised has ended, and a handle is cached.
FailedReconnectEndsCall ==
    \A w \in Workers :
        ReconnectFailed(call[w]) =>
            /\ EndedWithConnectError(call[w])
            /\ connection # None

\* C37: when the forced acquire made after a transport error raises, the
\* call ends with the construction error, the operation has been executed
\* once only, and the step leaves the cached handle as it was: a handle, the
\* one the next unforced acquire returns.
C37_FailedReconnectKeepsHandle ==
    /\ []FailedReconnectEndsCall
    /\ [][KeepsCachedHandle]_vars

\* A call has ended on a failed reconnect and the cached handle is still the
\* closed handle its only execution ran on.
C37_Witness ==
    \E w \in Workers :
        /\ ReconnectFailed(call[w])
        /\ Finished(call[w])
        /\ connection = call[w].h
        /\ connection \in stale

(***************************************************************************)
(* Counter store: the keys of the limiter and of the cache                 *)
(***************************************************************************)
\* The step is a command of worker w's rate-limit check.
LimiterStep(w) == req[w].pc = "check" /\ req'[w] # req[w]

\* The step is a cache write of worker w's request.
CacheWriteStep(w) ==
    req[w].pc \in {"cache_set", "cache_expire"} /\ req'[w] # req[w]

\* The keys the limiter reads: the identifiers of the requests in progress.
LimiterKeys == {req[w].client_ip : w \in Workers} \ {NoHeader}

\* A rate-limit check leaves every key the cache reads as it is.
LimiterKeepsCacheKeys ==
    \A w \in Workers :
        LimiterStep(w) =>
            \A k \in CacheKeys : cache'[k] = cache[k] /\ cacheTtl'[k] = cacheTtl[k]

\* A cache write leaves every key the limiter reads as it is.
CacheKeepsLimiterKeys ==
    \A w \in Workers :
        CacheWriteStep(w) =>
            \A i \in LimiterKeys \cap CacheKeys :
                cache'[i] = cache[i] /\ cacheTtl'[i] = cacheTtl[i]

\* C38: no step of a rate-limit check creates or changes a key the cache
\* reads, and no cache write creates or changes a key the limiter reads.
C38_KeySpacesSeparate ==
    [][LimiterKeepsCacheKeys /\ CacheKeepsLimiterKeys]_vars

\* A request is answered with a counter's value in place of the questions.
CounterServedAsQuestions ==
    \E w \in Workers :
        /\ req[w].pc = "done" /\ req[w].status = "OK"
        /\ IsCount(req[w].found)

\* A request's rate-limit check has raised on a cached page.
CheckRaisedOnCachedPage ==
    \E w \in Workers :
        /\ req[w].pc = "done" /\ req[w].status = "ServerError"
        /\ req[w].limiter = "error"
        /\ req[w].gets = {}

(***************************************************************************)
(* The /ws notification endpoint: completeness                             *)
(***************************************************************************)
\* The questions the notifications sent so far have counted.
RECURSIVE Notified(_)
Notified(sent) ==
    IF sent = <<>> THEN 0 ELSE Head(sent).count + Notified(Tail(sent))

\* The highest id the endpoint read when it started.
InitialId ==
    IF ws.sent = <<>> THEN ws.recent_question_id ELSE ws.sent[1].known

\* The questions created after the endpoint started that the loop has moved
\* past: their ids are at most the highest known id.
Passed ==
    {q \in DOMAIN questions :
        questions[q] # "absent" /\ q > InitialId /\ q <= ws.recent_question_id}

\* C39: outside the statements between a notification and the refresh that
\* follows it, the counts of the notifications sent add up to the number of
\* questions created since the start with an id up to the highest known id:
\* each of them was counted in one notification, none was passed over.
C39_EveryQuestionNotifiedOnce ==
    ws.pc \in {"top", "poll", "send", "sleep"} =>
        Notified(ws.sent) = Cardinality(Passed)

\* The loop has moved past a question no notification counted: it was
\* created after the poll and before the refresh of the highest known id.
QuestionPassedOver ==
    /\ ws.pc = "sleep"
    /\ ws.peer = "connected"
    /\ Len(ws.sent) = 1
    /\ ws.sent[1].count = 1
    /\ ws.recent_question_id = ws.sent[1].known + 2
    /\ recent_questions_count(ws.recent_question_id) = 0

=============================================================================
